---- MODULE Spec2Model ----
(***************************************************************************)
(* StagScribe: the resolver (variables, expressions, colour palettes,      *)
(* templates, for-loop unrolling) and the layout engine, as state          *)
(* machines.                                                               *)
(*                                                                         *)
(* Numbers.  Value.number is a Python float.  The model keeps it as an     *)
(* exact rational [n, d] in lowest terms with d > 0, so that +, -, *, /    *)
(* and the comparisons of the code are computed, not abstracted.  Float    *)
(* rounding is not modelled.                                               *)
(*                                                                         *)
(* Objects.  Element, Position, StrokeStyle and TextStyle are mutated in   *)
(* place by the resolver, so they live in `heap`, a sequence of objects    *)
(* addressed by index; a reference is an index, 0 is Python's None.        *)
(* Value and the expression nodes are never mutated and are kept inline.   *)
(***************************************************************************)
EXTENDS Integers, Sequences, FiniteSets, TLC

VARIABLES
    doc,                \* Document.statements handed to Resolver.resolve
    heap,               \* the objects reachable from the document and the resolver
    variables,          \* Resolver.variables      : name -> Value
    color_vars,         \* Resolver.color_vars     : name -> colour string
    templates,          \* Resolver.templates      : name -> DefineBlock
    _loop_depth,        \* Resolver._loop_depth
    stack,              \* the call stack of _resolve_statements / _handle_for
    resolved_elements,  \* the list of Resolver.resolve (top-level accumulator)
    status,             \* "running" | "raising" | "done" | "error"
    error,              \* the exception message being raised, or ""
    boxes,              \* resolve_layout's boxes  : key -> ResolvedBox
    counter,            \* resolve_layout's counter of elements laid out
    hist,               \* history (not program state): the last step, every
                        \* placement's output, every template as defined,
                        \* the number of loop iterations begun, the boxes
                        \* as computed, what the first resolve returned
    skip_lint,          \* convert's argument skip_lint
    diagnostics,        \* convert's diagnostics: the list lint(doc) returned
    svg,                \* the markup build_svg returned, "" before
    suspended,          \* two resolve calls: the call that is not running,
                        \* and what each call gave when run alone
    px_value,           \* the Value to_pixels is called on
    px_container,       \* to_pixels' container_size, None when not given
    pixels,             \* what to_pixels returned or raised, None before
    wide                \* _handle_for's locals in a loop whose bounds lie
                        \* at 2^53, where the doubles thin out; None else

\* what the resolver and the layout never touch
others == <<skip_lint, diagnostics, svg, suspended, px_value, px_container, pixels,
            wide>>

vars == <<doc, heap, variables, color_vars, templates, _loop_depth, stack,
          resolved_elements, status, error, boxes, counter, hist,
          skip_lint, diagnostics, svg, suspended, px_value, px_container, pixels,
          wide>>

----------------------------------------------------------------------------
(* Python's None for optional strings and for optional Value/Expr fields.  *)

None == "None"
NoneV == [k |-> "none"]

----------------------------------------------------------------------------
(* Float arithmetic, as exact rationals.                                   *)

Abs(x) == IF x < 0 THEN -x ELSE x

RECURSIVE Gcd(_, _)
Gcd(a, b) == IF b = 0 THEN a ELSE Gcd(b, a % b)

Rat(n, d) ==
    LET g == Gcd(Abs(n), Abs(d))
        s == IF d < 0 THEN -1 ELSE 1
    IN  [n |-> (s * n) \div g, d |-> (s * d) \div g]

RInt(i) == [n |-> i, d |-> 1]
RAdd(a, b) ==
    IF a.d = b.d THEN Rat(a.n + b.n, a.d)
    ELSE Rat(a.n * b.d + b.n * a.d, a.d * b.d)
RSub(a, b) ==
    IF a.d = b.d THEN Rat(a.n - b.n, a.d)
    ELSE Rat(a.n * b.d - b.n * a.d, a.d * b.d)
RMul(a, b) == Rat(a.n * b.n, a.d * b.d)
RDiv(a, b) == Rat(a.n * b.d, a.d * b.n)
RNeg(a) == [n |-> -a.n, d |-> a.d]
RAbs(a) == [n |-> Abs(a.n), d |-> a.d]
RLt(a, b) == a.n * b.d < b.n * a.d
RLe(a, b) == a.n * b.d <= b.n * a.d
\* int(x): truncation toward zero
RTrunc(a) == IF a.n >= 0 THEN a.n \div a.d ELSE -((-a.n) \div a.d)

----------------------------------------------------------------------------
(* ast_nodes: Value and the expression nodes.                              *)

Value(number, unit) == [k |-> "val", number |-> number, unit |-> unit]
LiteralExpr(value) == [k |-> "lit", value |-> value]
VarRefExpr(name) == [k |-> "var", name |-> name]
BinaryExpr(op, left, right) ==
    [k |-> "bin", op |-> op, left |-> left, right |-> right]
UnaryExpr(operand) == [k |-> "neg", operand |-> operand]

IsValue(x) == x.k = "val"
IsExprNode(x) == x.k \in {"lit", "var", "bin", "neg"}

\* a unitless number, Value(number=float(i))
Num(i) == Value(RInt(i), None)

----------------------------------------------------------------------------
(* Python dicts: partial functions on strings.                            *)

EmptyDict == [x \in {} |-> NoneV]
DictGet(d, key) == IF key \in DOMAIN d THEN d[key] ELSE NoneV
DictSet(d, key, v) == [x \in DOMAIN d \cup {key} |-> IF x = key THEN v ELSE d[x]]
DictPop(d, key) == [x \in DOMAIN d \ {key} |-> d[x]]

----------------------------------------------------------------------------
(* Results of operations that may raise ResolveError.                      *)

Ok(v) == [ok |-> TRUE, val |-> v, err |-> ""]
Raise(msg) == [ok |-> FALSE, val |-> NoneV, err |-> msg]

----------------------------------------------------------------------------
(* Resolver: expression evaluation.                                        *)

_check_additive_units_differ_ok(left, right) ==
    IF left.unit = None /\ right.unit = None THEN Ok(None)
    ELSE IF left.unit = None THEN Ok(right.unit)
    ELSE Ok(left.unit)

_check_additive_units(left, right) ==
    IF left.unit = None /\ right.unit = None THEN Ok(None)
    ELSE IF left.unit = None THEN Ok(right.unit)
    ELSE IF right.unit = None THEN Ok(left.unit)
    ELSE IF left.unit = right.unit THEN Ok(left.unit)
    ELSE Raise("Cannot add/subtract values with different units: '"
               \o left.unit \o "' and '" \o right.unit \o "'")

_check_multiplicative_units_same_ok(left, right) ==
    IF left.unit = None /\ right.unit = None THEN Ok(None)
    ELSE IF left.unit = None THEN Ok(right.unit)
    ELSE IF right.unit = None THEN Ok(left.unit)
    ELSE IF left.unit = right.unit THEN Ok(left.unit)
    ELSE Raise("Cannot multiply/divide values with units on both sides: '"
               \o left.unit \o "' and '" \o right.unit \o "'")

_check_multiplicative_units(left, right) ==
    IF left.unit = None /\ right.unit = None THEN Ok(None)
    ELSE IF left.unit = None THEN Ok(right.unit)
    ELSE IF right.unit = None THEN Ok(left.unit)
    ELSE Raise("Cannot multiply/divide values with units on both sides: '"
               \o left.unit \o "' and '" \o right.unit \o "'")

\* Value(number=..., unit=unit), unit being the outcome of the unit check
WithUnit(unit, number) ==
    IF unit.ok THEN Ok(Value(number, unit.val)) ELSE unit

_eval_binary(op, left, right) ==
    IF op = "+" THEN
        WithUnit(_check_additive_units(left, right), RAdd(left.number, right.number))
    ELSE IF op = "-" THEN
        WithUnit(_check_additive_units(left, right), RSub(left.number, right.number))
    ELSE IF op = "*" THEN
        WithUnit(_check_multiplicative_units(left, right),
                 RMul(left.number, right.number))
    ELSE IF op = "/" THEN
        IF right.number.n = 0 THEN Raise("Division by zero")
        ELSE WithUnit(_check_multiplicative_units(left, right),
                      RDiv(left.number, right.number))
    ELSE Raise("Unknown operator: " \o op)

LookupVar_default(vs, name) ==
    IF DictGet(vs, name) = NoneV THEN Ok(Num(0)) ELSE Ok(vs[name])

\* VarRefExpr: self.variables.get(name), None raises
LookupVar(vs, name) ==
    IF DictGet(vs, name) = NoneV THEN Raise("Undefined variable '" \o name \o "'")
    ELSE Ok(vs[name])

\* UnaryExpr, its operand evaluated
Negated(operand) ==
    IF operand.ok THEN Ok(Value(RNeg(operand.val.number), operand.val.unit))
    ELSE operand

\* BinaryExpr, its operands evaluated left first; a raise in one ends it
Combined(op, left, right) ==
    IF ~left.ok THEN left
    ELSE IF ~right.ok THEN right
    ELSE _eval_binary(op, left.val, right.val)

RECURSIVE _eval_expr(_, _)
_eval_expr(vs, expr) ==
    IF IsValue(expr) THEN Ok(expr)
    ELSE IF expr.k = "lit" THEN Ok(expr.value)
    ELSE IF expr.k = "var" THEN LookupVar(vs, expr.name)
    ELSE IF expr.k = "neg" THEN Negated(_eval_expr(vs, expr.operand))
    ELSE IF expr.k = "bin" THEN
        Combined(expr.op, _eval_expr(vs, expr.left), _eval_expr(vs, expr.right))
    ELSE Raise("Unknown expression type")

\* _resolve_value_field: a field that may be Value, Expr or None
_resolve_value_field(vs, field) ==
    IF field = NoneV THEN Ok(NoneV)
    ELSE IF IsExprNode(field) THEN _eval_expr(vs, field)
    ELSE IF IsValue(field) THEN Ok(field)
    ELSE Ok(NoneV)

----------------------------------------------------------------------------
(* Strings with {var} placeholders.  An element name, an instance name or  *)
(* a position reference is a sequence of tokens: literal text, or a        *)
(* placeholder {s}.  Adjacent literals are merged, so equal strings have   *)
(* equal token sequences.                                                  *)

Lit(s) == [lit |-> TRUE, s |-> s]
Ph(s) == [lit |-> FALSE, s |-> s]
Str(toks) == [k |-> "str", toks |-> toks]

RECURSIVE MergeLits(_)
MergeLits(toks) ==
    IF Len(toks) < 2 THEN toks
    ELSE IF toks[1].lit /\ toks[2].lit
         THEN MergeLits(<<Lit(toks[1].s \o toks[2].s)>> \o SubSeq(toks, 3, Len(toks)))
         ELSE <<toks[1]>> \o MergeLits(Tail(toks))

\* str(float) for a non-integer, for the denominators the model produces
FormatFloat(r) ==
    LET neg == r.n < 0
        whole == Abs(r.n) \div r.d
        frac == Abs(r.n) % r.d
        digits == IF r.d = 2 THEN ToString(frac * 5)
                  ELSE IF r.d = 5 THEN ToString(frac * 2)
                  ELSE IF r.d = 10 THEN ToString(frac)
                  ELSE IF r.d = 4 THEN ToString(frac * 25)
                  ELSE ToString(frac) \o "/" \o ToString(r.d)
    IN  (IF neg THEN "-" ELSE "") \o ToString(whole) \o "." \o digits

\* _interpolate_string._replace: str(int(n)) if n == int(n) else str(n)
FormatNumber(r) == IF r.d = 1 THEN ToString(r.n) ELSE FormatFloat(r)

_interpolate_string(vs, s) ==
    Str(MergeLits([i \in 1..Len(s.toks) |->
        LET t == s.toks[i]
        IN  IF t.lit THEN t
            ELSE LET val == DictGet(vs, t.s)
                 IN  IF val = NoneV THEN t   \* leave unreplaced
                     ELSE Lit(FormatNumber(val.number))]))

----------------------------------------------------------------------------
(* Colour strings.  [ref |-> TRUE, s |-> n] is the string "$color:" + n,   *)
(* [ref |-> FALSE, s |-> c] is the string c.                               *)

Color(s) == [k |-> "color", ref |-> FALSE, s |-> s]
ColorRef(name) == [k |-> "color", ref |-> TRUE, s |-> name]

\* language.colors.resolve_color, on the strings for which the tests fix
\* its result: CSS names give upper-case hex, hex literals are lower-cased,
\* "none" and "transparent" give "none", an unknown name gives None.
resolve_color(s) ==
    CASE s = "red" -> "#FF0000"
      [] s = "blue" -> "#0000FF"
      [] s = "white" -> "#FFFFFF"
      [] s = "#FF0000" -> "#ff0000"
      [] s = "#007AFF" -> "#007aff"
      [] s = "none" -> "none"
      [] s = "transparent" -> "none"
      [] s \in {"unicorn", "#ZZZZZZ", "not_a_color_var"} -> None

_resolve_color_string(cv, color) ==
    IF color.ref THEN
        IF DictGet(cv, color.s) # NoneV THEN Ok(cv[color.s])
        ELSE IF resolve_color(color.s) # None THEN Ok(Color(resolve_color(color.s)))
        ELSE Raise("Undefined color variable '" \o color.s \o "'")
    ELSE Ok(color)

----------------------------------------------------------------------------
(* ast_nodes: the scene objects and the statements.  In a document as      *)
(* parsed (a tree), position, stroke, text_style and children hold the     *)
(* sub-objects themselves; in the heap they hold references.               *)

Position(x, y, anchor, relative, reference, ref_anchor, gap) ==
    [k |-> "position", x |-> x, y |-> y, anchor |-> anchor,
     relative |-> relative, reference |-> reference,
     ref_anchor |-> ref_anchor, gap |-> gap]

StrokeStyle(color, width, dash) ==
    [k |-> "stroke", color |-> color, width |-> width, dash |-> dash]

TextStyle(size, color) == [k |-> "text_style", size |-> size, color |-> color]

\* Element with the dataclass defaults
Element(element_type, name) ==
    [k |-> "element", element_type |-> element_type, name |-> name,
     position |-> NoneV, children |-> <<>>,
     width |-> NoneV, height |-> NoneV, radius |-> NoneV,
     fill |-> NoneV, stroke |-> NoneV, opacity |-> NoneV,
     rounded |-> NoneV, rotate |-> NoneV,
     text_style |-> NoneV, background |-> NoneV, gradient |-> NoneV]

\* GradientFill, the two colours being strings
GradientFill(color1, color2) == [color1 |-> color1, color2 |-> color2]

\* opacity and rotate, once resolved, are bare floats
Float(number) == [k |-> "float", number |-> number]

IsStatement(name, expr) == [k |-> "is", name |-> name, expr |-> expr]
ColorAssignment(name, color) == [name |-> name, color |-> color]
ColorsBlock(assignments) == [k |-> "colors", assignments |-> assignments]
DefineBlock(name, body_elements) ==
    [k |-> "define", name |-> name, body_elements |-> body_elements]
\* props is the dict in insertion order: a sequence of [key, val]
PlaceStatement(template_name, instance_name, props, position, scale, rotate_expr) ==
    [k |-> "place", template_name |-> template_name,
     instance_name |-> instance_name, props |-> props, position |-> position,
     scale |-> scale, rotate_expr |-> rotate_expr]
ForStatement(var_name, start, end, step, body) ==
    [k |-> "for", var_name |-> var_name, start |-> start, end |-> end,
     step |-> step, body |-> body]

RECURSIVE SumSeq(_)
SumSeq(s) == IF s = <<>> THEN 0 ELSE Head(s) + SumSeq(Tail(s))

RECURSIVE Flatten(_)
Flatten(ss) == IF ss = <<>> THEN <<>> ELSE Head(ss) \o Flatten(Tail(ss))

Has(x) == IF x = NoneV THEN 0 ELSE 1

\* the number of heap objects an element tree holds
RECURSIVE ElSize(_)
ElSize(el) ==
    1 + Has(el.position) + Has(el.stroke) + Has(el.text_style)
      + SumSeq([i \in 1..Len(el.children) |-> ElSize(el.children[i])])

PropSize(p) == IF p.key = "stroke" THEN 1 ELSE 0

RECURSIVE StmtSize(_)
StmtSize(st) ==
    IF st.k = "element" THEN ElSize(st)
    ELSE IF st.k = "place" THEN
        Has(st.position) + SumSeq([i \in 1..Len(st.props) |-> PropSize(st.props[i])])
    ELSE IF st.k = "define" THEN
        SumSeq([i \in 1..Len(st.body_elements) |-> ElSize(st.body_elements[i])])
    ELSE IF st.k = "for" THEN
        SumSeq([i \in 1..Len(st.body) |-> StmtSize(st.body[i])])
    ELSE 0

\* the start address of the i-th of consecutive blocks of the given sizes
Offset(base, sizes, i) == base + SumSeq(SubSeq(sizes, 1, i - 1))

\* An element tree laid out in the heap from address b on: the element at b,
\* then its position, stroke and text style, then its children's blocks.
\* Gives the new heap objects, in address order.
RECURSIVE ElObjects(_, _)
ElObjects(el, b) ==
    LET np == Has(el.position)
        ns == Has(el.stroke)
        nt == Has(el.text_style)
        sizes == [i \in 1..Len(el.children) |-> ElSize(el.children[i])]
        cb(i) == Offset(b + 1 + np + ns + nt, sizes, i)
        obj == [el EXCEPT
                  !.position = IF np = 1 THEN b + 1 ELSE 0,
                  !.stroke = IF ns = 1 THEN b + 1 + np ELSE 0,
                  !.text_style = IF nt = 1 THEN b + 1 + np + ns ELSE 0,
                  !.children = [i \in 1..Len(el.children) |-> cb(i)]]
    IN  <<obj>>
        \o (IF np = 1 THEN <<el.position>> ELSE <<>>)
        \o (IF ns = 1 THEN <<el.stroke>> ELSE <<>>)
        \o (IF nt = 1 THEN <<el.text_style>> ELSE <<>>)
        \o Flatten([i \in 1..Len(el.children) |-> ElObjects(el.children[i], cb(i))])

\* A statement tree laid out from address b on: [objs, stmt], stmt being the
\* statement with references in place of its objects.  An Element statement
\* becomes [k |-> "el", ref |-> b].
RECURSIVE StmtObjects(_, _)
StmtObjects(st, b) ==
    IF st.k = "element" THEN
        [objs |-> ElObjects(st, b), stmt |-> [k |-> "el", ref |-> b]]
    ELSE IF st.k = "place" THEN
        LET np == Has(st.position)
            sizes == [i \in 1..Len(st.props) |-> PropSize(st.props[i])]
            pb(i) == Offset(b + np, sizes, i)
        IN  [objs |-> (IF np = 1 THEN <<st.position>> ELSE <<>>)
                      \o Flatten([i \in 1..Len(st.props) |->
                             IF st.props[i].key = "stroke"
                             THEN <<st.props[i].val>> ELSE <<>>]),
             stmt |-> [st EXCEPT
                         !.position = IF np = 1 THEN b ELSE 0,
                         !.props = [i \in 1..Len(st.props) |->
                             IF st.props[i].key = "stroke"
                             THEN [key |-> "stroke", val |-> pb(i)]
                             ELSE st.props[i]]]]
    ELSE IF st.k = "define" THEN
        LET sizes == [i \in 1..Len(st.body_elements) |-> ElSize(st.body_elements[i])]
            eb(i) == Offset(b, sizes, i)
        IN  [objs |-> Flatten([i \in 1..Len(st.body_elements) |->
                                  ElObjects(st.body_elements[i], eb(i))]),
             stmt |-> [st EXCEPT !.body_elements =
                          [i \in 1..Len(st.body_elements) |-> eb(i)]]]
    ELSE IF st.k = "for" THEN
        LET sizes == [i \in 1..Len(st.body) |-> StmtSize(st.body[i])]
            sb(i) == Offset(b, sizes, i)
            parts == [i \in 1..Len(st.body) |-> StmtObjects(st.body[i], sb(i))]
        IN  [objs |-> Flatten([i \in 1..Len(parts) |-> parts[i].objs]),
             stmt |-> [st EXCEPT !.body = [i \in 1..Len(parts) |-> parts[i].stmt]]]
    ELSE [objs |-> <<>>, stmt |-> st]

\* a statement list laid out from address b on
StmtsObjects(stmts, b) ==
    LET sizes == [i \in 1..Len(stmts) |-> StmtSize(stmts[i])]
        parts == [i \in 1..Len(stmts) |-> StmtObjects(stmts[i], Offset(b, sizes, i))]
    IN  [objs |-> Flatten([i \in 1..Len(parts) |-> parts[i].objs]),
         stmts |-> [i \in 1..Len(parts) |-> parts[i].stmt]]

\* The tree below a heap element: what copy.deepcopy walks.
RECURSIVE ElTree(_, _)
ElTree(h, a) ==
    LET o == h[a]
    IN  [o EXCEPT
           !.position = IF o.position = 0 THEN NoneV ELSE h[o.position],
           !.stroke = IF o.stroke = 0 THEN NoneV ELSE h[o.stroke],
           !.text_style = IF o.text_style = 0 THEN NoneV ELSE h[o.text_style],
           !.children = [i \in 1..Len(o.children) |-> ElTree(h, o.children[i])]]

RECURSIVE StmtTree(_, _)
StmtTree(h, st) ==
    IF st.k = "el" THEN ElTree(h, st.ref)
    ELSE IF st.k = "place" THEN
        [st EXCEPT
           !.position = IF st.position = 0 THEN NoneV ELSE h[st.position],
           !.props = [i \in 1..Len(st.props) |->
               IF st.props[i].key = "stroke"
               THEN [key |-> "stroke", val |-> h[st.props[i].val]]
               ELSE st.props[i]]]
    ELSE IF st.k = "define" THEN
        [st EXCEPT !.body_elements =
            [i \in 1..Len(st.body_elements) |-> ElTree(h, st.body_elements[i])]]
    ELSE IF st.k = "for" THEN
        [st EXCEPT !.body = [i \in 1..Len(st.body) |-> StmtTree(h, st.body[i])]]
    ELSE st

\* copy.deepcopy of a list of elements: fresh objects appended to the heap.
\* Gives [h, refs].
deepcopy_elements(h, refs) ==
    LET trees == [i \in 1..Len(refs) |-> ElTree(h, refs[i])]
        sizes == [i \in 1..Len(refs) |-> ElSize(trees[i])]
        eb(i) == Offset(Len(h) + 1, sizes, i)
    IN  [h |-> h \o Flatten([i \in 1..Len(refs) |-> ElObjects(trees[i], eb(i))]),
         refs |-> [i \in 1..Len(refs) |-> eb(i)]]

\* copy.deepcopy of a list of statements.  Gives [h, stmts].
deepcopy_statements(h, stmts) ==
    LET trees == [i \in 1..Len(stmts) |-> StmtTree(h, stmts[i])]
        loaded == StmtsObjects(trees, Len(h) + 1)
    IN  [h |-> h \o loaded.objs, stmts |-> loaded.stmts]

----------------------------------------------------------------------------
(* Resolver: in-place resolution of an element.  A step takes and gives    *)
(* [h, err]: the heap so far and the error raised, "" while none is.  What *)
(* was written before a raise stays written.                               *)

Good(h) == [h |-> h, err |-> ""]

\* obj.f = r, or the raise of r
Store(st, a, f, r) ==
    IF r.ok THEN [st EXCEPT !.h[a][f] = r.val] ELSE [st EXCEPT !.err = r.err]

\* obj.f = r.number, or the raise of r
StoreNumber(st, a, f, r) ==
    IF r.ok THEN [st EXCEPT !.h[a][f] = Float(r.val.number)]
    ELSE [st EXCEPT !.err = r.err]

ResolveField_value_only(st, vs, cv, a, f, how) ==
    IF how = "value" THEN Store(st, a, f, _resolve_value_field(vs, st.h[a][f]))
    ELSE IF how = "color" THEN
        IF st.h[a][f] = NoneV THEN st
        ELSE Store(st, a, f, _resolve_color_string(cv, st.h[a][f]))
    ELSE IF how = "opacity" THEN
        IF IsExprNode(st.h[a][f]) THEN StoreNumber(st, a, f, _eval_expr(vs, st.h[a][f]))
        ELSE IF IsValue(st.h[a][f]) THEN [st EXCEPT !.h[a][f] = Float(st.h[a][f].number)]
        ELSE [st EXCEPT !.h[a][f] = NoneV]
    ELSE IF IsExprNode(st.h[a][f]) THEN StoreNumber(st, a, f, _eval_expr(vs, st.h[a][f]))
    ELSE st

\* One assignment of _resolve_element to field f of the object at a:
\*   "value"   obj.f = self._resolve_value_field(obj.f)
\*   "color"   if isinstance(obj.f, str): obj.f = self._resolve_color_string(obj.f)
\*   "opacity" lines 261-265: an Expr or a Value becomes its number
\*   "rotate"  lines 268-270: an Expr becomes its number
ResolveField(st, vs, cv, a, f, how) ==
    IF how = "value" THEN Store(st, a, f, _resolve_value_field(vs, st.h[a][f]))
    ELSE IF how = "color" THEN
        IF st.h[a][f] = NoneV THEN st
        ELSE Store(st, a, f, _resolve_color_string(cv, st.h[a][f]))
    ELSE IF how = "opacity" THEN
        IF IsExprNode(st.h[a][f]) THEN StoreNumber(st, a, f, _eval_expr(vs, st.h[a][f]))
        ELSE IF IsValue(st.h[a][f]) THEN [st EXCEPT !.h[a][f] = Float(st.h[a][f].number)]
        ELSE st
    ELSE IF IsExprNode(st.h[a][f]) THEN StoreNumber(st, a, f, _eval_expr(vs, st.h[a][f]))
    ELSE st

Field(a, f, how) == [a |-> a, f |-> f, how |-> how]

\* _resolve_position, as its assignments in order
_resolve_position(p) ==
    <<Field(p, "x", "value"), Field(p, "y", "value"), Field(p, "gap", "value")>>

\* the assignments of _resolve_element before it recurses (lines 255-294)
ElementFields(el, a) ==
    <<Field(a, "width", "value"), Field(a, "height", "value"),
      Field(a, "radius", "value"), Field(a, "rounded", "value"),
      Field(a, "opacity", "opacity"), Field(a, "rotate", "rotate"),
      Field(a, "fill", "color"), Field(a, "background", "color")>>
    \o (IF el.stroke = 0 THEN <<>>
        ELSE <<Field(el.stroke, "color", "color"), Field(el.stroke, "width", "value")>>)
    \o (IF el.position = 0 THEN <<>> ELSE _resolve_position(el.position))
    \o (IF el.text_style = 0 THEN <<>>
        ELSE <<Field(el.text_style, "size", "value"),
               Field(el.text_style, "color", "color")>>)

\* the assignments from the i-th on, up to the first that raises
RECURSIVE ResolveFields(_, _, _, _, _)
ResolveFields(st, vs, cv, fields, i) ==
    IF st.err # "" \/ i > Len(fields) THEN st
    ELSE ResolveFields(
             ResolveField(st, vs, cv, fields[i].a, fields[i].f, fields[i].how),
             vs, cv, fields, i + 1)

RECURSIVE _resolve_element(_, _, _, _)
RECURSIVE ResolveChildren(_, _, _, _, _)

\* el.children = [self._resolve_element(child) for child in el.children]
ResolveChildren(st, vs, cv, kids, i) ==
    IF st.err # "" \/ i > Len(kids) THEN st
    ELSE ResolveChildren(_resolve_element(st, vs, cv, kids[i]), vs, cv, kids, i + 1)

_resolve_element(st, vs, cv, a) ==
    ResolveChildren(ResolveFields(st, vs, cv, ElementFields(st.h[a], a), 1),
                    vs, cv, st.h[a].children, 1)

----------------------------------------------------------------------------
(* Resolver: template placement.                                           *)

\* a non-None, non-empty string
Truthy(name) == name # NoneV /\ name.toks # <<>>

_apply_scale(h, a, scale_val) ==
    LET factor == scale_val.number
        el == h[a]
        scaled(v) == IF v # NoneV /\ IsValue(v)
                     THEN Value(RMul(v.number, factor), v.unit) ELSE v
    IN  [h EXCEPT ![a] = [el EXCEPT !.width = scaled(el.width),
                                    !.height = scaled(el.height),
                                    !.radius = scaled(el.radius)]]

\* one (key, val) of props applied to the element at a
ApplyOverride(st, cv, a, p) ==
    IF st.err # "" THEN st
    ELSE IF p.key \in {"fill", "background"} THEN
        Store(st, a, p.key, _resolve_color_string(cv, p.val))
    ELSE IF p.key \in {"stroke", "width", "height"} THEN
        [st EXCEPT !.h[a][p.key] = p.val]
    ELSE st

RECURSIVE _apply_overrides(_, _, _, _, _)
_apply_overrides(st, cv, a, props, i) ==
    IF i > Len(props) THEN st
    ELSE _apply_overrides(ApplyOverride(st, cv, a, props[i]), cv, a, props, i + 1)

\* lines 102-103 / 116-119: the scale expression evaluated, then applied to
\* each of the targets
RECURSIVE ScaleAll(_, _, _, _)
ScaleAll(h, targets, scale_val, i) ==
    IF i > Len(targets) THEN h
    ELSE ScaleAll(_apply_scale(h, targets[i], scale_val), targets, scale_val, i + 1)

Scaled(st, r, targets) ==
    IF r.ok THEN [st EXCEPT !.h = ScaleAll(st.h, targets, r.val, 1)]
    ELSE [st EXCEPT !.err = r.err]

ApplyScale(st, vs, scale, targets) ==
    IF st.err # "" \/ scale = NoneV THEN st
    ELSE Scaled(st, _eval_expr(vs, scale), targets)

\* lines 104-106 / 120-122
ApplyRotate(st, vs, rotate_expr, a) ==
    IF st.err # "" \/ rotate_expr = NoneV THEN st
    ELSE StoreNumber(st, a, "rotate", _eval_expr(vs, rotate_expr))

CopyBody_shared(h, template) == [h |-> h, refs |-> template.body_elements]

\* body = copy.deepcopy(template.body_elements)
CopyBody(h, template) == deepcopy_elements(h, template.body_elements)

\* return [self._resolve_element(el)], unless something raised before
ResolveIfGood(st, vs, cv, a) ==
    IF st.err # "" THEN st ELSE _resolve_element(st, vs, cv, a)

PlaceResult(st, a) ==
    [h |-> st.h, err |-> st.err, out |-> IF st.err = "" THEN <<a>> ELSE <<>>]

\* lines 96-107: the template's single element, copied to el
PlaceSingle(h, vs, cv, stmt, el) ==
    LET h1 == IF Truthy(stmt.instance_name)
              THEN [h EXCEPT ![el].name = stmt.instance_name]
              ELSE h
        h2 == IF stmt.position # 0
              THEN [h1 EXCEPT ![el].position = stmt.position]
              ELSE h1
    IN  PlaceResult(
            ResolveIfGood(
                ApplyRotate(
                    ApplyScale(_apply_overrides(Good(h2), cv, el, stmt.props, 1),
                               vs, stmt.scale, <<el>>),
                    vs, stmt.rotate_expr, el),
                vs, cv, el),
            el)

\* lines 109-123: a new group element around the copied body
PlaceGroup(h, vs, cv, stmt, body) ==
    LET group == Len(h) + 1
        obj == [Element("group", stmt.instance_name) EXCEPT
                  !.position = stmt.position,
                  !.stroke = 0, !.text_style = 0,
                  !.children = body]
    IN  PlaceResult(
            ResolveIfGood(
                ApplyRotate(
                    ApplyScale(_apply_overrides(Good(Append(h, obj)), cv, group,
                                                stmt.props, 1),
                               vs, stmt.scale, body),
                    vs, stmt.rotate_expr, group),
                vs, cv, group),
            group)

PlaceCopied(copy, vs, cv, stmt) ==
    IF Len(copy.refs) = 1
    THEN PlaceSingle(copy.h, vs, cv, stmt, copy.refs[1])
    ELSE PlaceGroup(copy.h, vs, cv, stmt, copy.refs)

\* the body resolved with no variable bound
_handle_place_unbound(h, vs, cv, tpl, stmt) ==
    IF DictGet(tpl, stmt.template_name) = NoneV THEN
        [h |-> h, err |-> "Unknown template '" \o stmt.template_name \o "'",
         out |-> <<>>]
    ELSE PlaceCopied(CopyBody(h, tpl[stmt.template_name]), EmptyDict, cv, stmt)

\* Gives [h, err, out]: the heap, the error raised ("" if none) and the
\* list of elements returned.
_handle_place(h, vs, cv, tpl, stmt) ==
    IF DictGet(tpl, stmt.template_name) = NoneV THEN
        [h |-> h, err |-> "Unknown template '" \o stmt.template_name \o "'",
         out |-> <<>>]
    ELSE PlaceCopied(CopyBody(h, tpl[stmt.template_name]), vs, cv, stmt)

----------------------------------------------------------------------------
(* Resolver: {var} interpolation in a copied loop body.                    *)

\* _interpolate_position
_interpolate_position(h, vs, p) ==
    IF h[p].reference # NoneV
    THEN [h EXCEPT ![p].reference = _interpolate_string(vs, h[p].reference)]
    ELSE h

RECURSIVE InterpolateElement(_, _, _)
RECURSIVE InterpolateElements(_, _, _, _)
InterpolateElement(h, vs, a) ==
    LET h1 == IF h[a].name # NoneV
              THEN [h EXCEPT ![a].name = _interpolate_string(vs, h[a].name)]
              ELSE h
        h2 == IF h[a].position # 0 THEN _interpolate_position(h1, vs, h[a].position)
              ELSE h1
    IN  InterpolateElements(h2, vs, h[a].children, 1)

InterpolateElements(h, vs, kids, i) ==
    IF i > Len(kids) THEN h
    ELSE InterpolateElements(InterpolateElement(h, vs, kids[i]), vs, kids, i + 1)

\* Gives [h, stmts]: the heap, and the statements with the PlaceStatements'
\* instance names replaced.
RECURSIVE _interpolate_names(_, _, _)
RECURSIVE InterpolateFrom(_, _, _, _)
_interpolate_names(h, vs, stmts) == InterpolateFrom(h, vs, stmts, 1)

InterpolateFrom(h, vs, stmts, i) ==
    IF i > Len(stmts) THEN [h |-> h, stmts |-> stmts]
    ELSE LET st == stmts[i]
         IN  IF st.k = "el" THEN
                 InterpolateFrom(InterpolateElement(h, vs, st.ref), vs, stmts, i + 1)
             ELSE IF st.k = "place" THEN
                 LET st1 == IF st.instance_name # NoneV
                            THEN [st EXCEPT !.instance_name =
                                     _interpolate_string(vs, st.instance_name)]
                            ELSE st
                     h1 == IF st.position # 0
                           THEN _interpolate_position(h, vs, st.position)
                           ELSE h
                 IN  InterpolateFrom(h1, vs, [stmts EXCEPT ![i] = st1], i + 1)
             ELSE IF st.k = "for" THEN
                 LET r == _interpolate_names(h, vs, st.body)
                 IN  InterpolateFrom(r.h, vs,
                                     [stmts EXCEPT ![i] = [st EXCEPT !.body = r.stmts]],
                                     i + 1)
             ELSE InterpolateFrom(h, vs, stmts, i + 1)

----------------------------------------------------------------------------
(* Resolver: for loops.                                                    *)

_MAX_LOOP_ITERATIONS == 10000
_MAX_LOOP_DEPTH == 5

\* the tolerance of line 180 is 1e-9 = 1 / PerTolerance
PerTolerance == 1000000000

\* x <= 1e-9, as x.n * PerTolerance <= x.d without the product
WithinTolerance(x) == x.n <= x.d \div PerTolerance

WhileCond_exclusive(i, end_n, step_n) ==
    \/ step_n.n > 0 /\ RLt(i, end_n)
    \/ step_n.n < 0 /\ RLt(end_n, i)

\* The while condition of line 180:
\*   (step_n > 0 and i <= end_n + 1e-9) or (step_n < 0 and i >= end_n - 1e-9)
WhileCond(i, end_n, step_n) ==
    \/ step_n.n > 0 /\ WithinTolerance(RSub(i, end_n))
    \/ step_n.n < 0 /\ WithinTolerance(RSub(end_n, i))

\* n_iters = int(abs(end_n - start_n) / abs(step_n)) + 1
CountIterations(start_n, end_n, step_n) ==
    RTrunc(RDiv(RAbs(RSub(end_n, start_n)), RAbs(step_n))) + 1

Setup(start_n, end_n, step_n, n_iters) ==
    [ok |-> TRUE, err |-> "", start_n |-> start_n, end_n |-> end_n,
     step_n |-> step_n, n_iters |-> n_iters]
SetupRaise(msg) ==
    [ok |-> FALSE, err |-> msg, start_n |-> RInt(0), end_n |-> RInt(0),
     step_n |-> RInt(0), n_iters |-> 0]

DepthExceeded_late(depth) == depth > _MAX_LOOP_DEPTH

\* line 127
DepthExceeded(depth) == depth >= _MAX_LOOP_DEPTH

TooManyIterations_inclusive(n_iters) == n_iters >= _MAX_LOOP_ITERATIONS

\* line 167
TooManyIterations(n_iters) == n_iters > _MAX_LOOP_ITERATIONS

\* lines 166-171
CheckCount(start_n, end_n, step_n, n_iters) ==
    IF TooManyIterations(n_iters) THEN
        SetupRaise("For loop would produce " \o ToString(n_iters)
                   \o " iterations (max " \o ToString(_MAX_LOOP_ITERATIONS) \o ")")
    ELSE Setup(start_n, end_n, step_n, n_iters)

\* lines 152-171, the bounds being evaluated
ValidateRange(start_n, end_n, step_n) ==
    IF step_n.n = 0 THEN SetupRaise("For loop step cannot be zero")
    ELSE IF step_n.n > 0 /\ RLt(end_n, start_n) THEN
        SetupRaise("For loop step direction does not match range (positive step, end < start)")
    ELSE IF step_n.n < 0 /\ RLt(start_n, end_n) THEN
        SetupRaise("For loop step direction does not match range (negative step, end > start)")
    ELSE CheckCount(start_n, end_n, step_n, CountIterations(start_n, end_n, step_n))

\* step_n = 1.0 if end_n >= start_n else -1.0
DefaultStep(start_n, end_n) == IF RLe(start_n, end_n) THEN RInt(1) ELSE RInt(-1)

\* lines 145-148, the step expression evaluated
CheckStep(start_n, end_n, step_val) ==
    IF ~step_val.ok THEN SetupRaise(step_val.err)
    ELSE IF step_val.val.unit # None THEN
        SetupRaise("For loop 'step' value must be unitless")
    ELSE ValidateRange(start_n, end_n, step_val.val.number)

\* lines 132-150, start and end evaluated in that order
CheckBounds(vs, stmt, start_val, end_val) ==
    IF ~start_val.ok THEN SetupRaise(start_val.err)
    ELSE IF ~end_val.ok THEN SetupRaise(end_val.err)
    ELSE IF start_val.val.unit # None THEN
        SetupRaise("For loop 'from' value must be unitless")
    ELSE IF end_val.val.unit # None THEN
        SetupRaise("For loop 'to' value must be unitless")
    ELSE IF stmt.step # NoneV THEN
        CheckStep(start_val.val.number, end_val.val.number, _eval_expr(vs, stmt.step))
    ELSE ValidateRange(start_val.val.number, end_val.val.number,
                       DefaultStep(start_val.val.number, end_val.val.number))

\* lines 127-171: everything _handle_for does before it touches any state
ForSetup(vs, depth, stmt) ==
    IF DepthExceeded(depth) THEN
        SetupRaise("Maximum loop nesting depth (" \o ToString(_MAX_LOOP_DEPTH)
                   \o ") exceeded")
    ELSE CheckBounds(vs, stmt, _eval_expr(vs, stmt.start), _eval_expr(vs, stmt.end))

\* the finally block, lines 189-193
RestoreVariable_always_pop(vs, var_name, old_var) == DictPop(vs, var_name)

RestoreVariable(vs, var_name, old_var) ==
    IF old_var # NoneV THEN DictSet(vs, var_name, old_var)
    ELSE DictPop(vs, var_name)

----------------------------------------------------------------------------
(* The resolver as a machine.  `stack` holds the active calls, innermost   *)
(* last: a frame of _resolve_statements (the list it walks and the index   *)
(* of its next statement), or a frame of _handle_for stopped at its while  *)
(* test.  A frame of _resolve_statements appends to the list it was        *)
(* handed: Resolver.resolve's for the bottom frame, the enclosing          *)
(* _handle_for's otherwise.                                                *)

StmtsFrame(statements) == [k |-> "stmts", statements |-> statements, pc |-> 1]

\* h_pre, h_start, h_iters and h_n_iters are history: the loop variable's
\* binding when the loop was reached, start_n, the iterations begun so far
\* and n_iters.
ForFrame(stmt, setup, old_var, pre) ==
    [k |-> "for", stmt |-> stmt, i |-> setup.start_n, end_n |-> setup.end_n,
     step_n |-> setup.step_n, old_var |-> old_var, resolved_elements |-> <<>>,
     h_pre |-> pre, h_start |-> setup.start_n, h_iters |-> 0,
     h_n_iters |-> setup.n_iters]

Top == stack[Len(stack)]
Pop(stk) == SubSeq(stk, 1, Len(stk) - 1)

AtStatement ==
    /\ status = "running"
    /\ stack # <<>>
    /\ Top.k = "stmts"
    /\ Top.pc <= Len(Top.statements)

Cur == Top.statements[Top.pc]

Emit_prepend(stk, out, els) ==
    IF Len(stk) = 1
    THEN [stack |-> [stk EXCEPT ![1].pc = @ + 1], out |-> els \o out]
    ELSE [stack |-> [stk EXCEPT ![Len(stk)].pc = @ + 1,
                                ![Len(stk) - 1].resolved_elements = els \o @],
          out |-> out]

\* the caller's list extended by els and the top frame moved to its next
\* statement: [stack, out]
Emit(stk, out, els) ==
    IF Len(stk) = 1
    THEN [stack |-> [stk EXCEPT ![1].pc = @ + 1], out |-> out \o els]
    ELSE [stack |-> [stk EXCEPT ![Len(stk)].pc = @ + 1,
                                ![Len(stk) - 1].resolved_elements = @ \o els],
          out |-> out]

Advance == stack' = [stack EXCEPT ![Len(stack)].pc = @ + 1]

\* raise ResolveError(msg)
RaiseError(msg) ==
    /\ status' = "raising"
    /\ error' = msg

_handle_is ==
    /\ UNCHANGED others
    /\ AtStatement
    /\ Cur.k = "is"
    /\ LET value == _eval_expr(variables, Cur.expr)
       IN  IF value.ok
           THEN /\ variables' = DictSet(variables, Cur.name, value.val)
                /\ Advance
                /\ UNCHANGED <<status, error>>
           ELSE /\ RaiseError(value.err)
                /\ UNCHANGED <<variables, stack>>
    /\ hist' = [hist EXCEPT !.last = [op |-> "is"]]
    /\ UNCHANGED <<boxes, counter, doc, heap, color_vars, templates, _loop_depth, resolved_elements>>

\* the colour table after the assignments from the i-th on
RECURSIVE AssignColors(_, _, _)
AssignColors(cv, assignments, i) ==
    IF i > Len(assignments) THEN cv
    ELSE LET color == assignments[i].color
             resolved == resolve_color(color)
         IN  AssignColors(
                 DictSet(cv, assignments[i].name,
                         Color(IF resolved # None /\ resolved # "" THEN resolved
                               ELSE color)),
                 assignments, i + 1)

_handle_colors ==
    /\ UNCHANGED others
    /\ AtStatement
    /\ Cur.k = "colors"
    /\ color_vars' = AssignColors(color_vars, Cur.assignments, 1)
    /\ Advance
    /\ hist' = [hist EXCEPT !.last = [op |-> "colors"]]
    /\ UNCHANGED <<boxes, counter, doc, heap, variables, templates, _loop_depth,
                   resolved_elements, status, error>>

_handle_define ==
    /\ UNCHANGED others
    /\ AtStatement
    /\ Cur.k = "define"
    /\ templates' = DictSet(templates, Cur.name, Cur)
    /\ Advance
    /\ hist' = [hist EXCEPT
                  !.last = [op |-> "define"],
                  !.defined = DictSet(@, Cur.name,
                      [i \in 1..Len(Cur.body_elements) |->
                          ElTree(heap, Cur.body_elements[i])])]
    /\ UNCHANGED <<boxes, counter, doc, heap, variables, color_vars, _loop_depth,
                   resolved_elements, status, error>>

\* the outcome r = [h, err, out] of a statement that yields elements
Yield(r) ==
    /\ heap' = r.h
    /\ IF r.err = ""
       THEN /\ stack' = Emit(stack, resolved_elements, r.out).stack
            /\ resolved_elements' = Emit(stack, resolved_elements, r.out).out
            /\ UNCHANGED <<status, error>>
       ELSE /\ RaiseError(r.err)
            /\ UNCHANGED <<stack, resolved_elements>>

PlaceDone(r) ==
    /\ Yield(r)
    /\ hist' = [hist EXCEPT
                  !.last = [op |-> "place", out |-> r.out,
                            template |-> Cur.template_name],
                  !.placed = @ \o r.out]

\* lines 61-63
place ==
    /\ UNCHANGED others
    /\ AtStatement
    /\ Cur.k = "place"
    /\ PlaceDone(_handle_place(heap, variables, color_vars, templates, Cur))
    /\ UNCHANGED <<boxes, counter, doc, variables, color_vars, templates, _loop_depth>>

\* lines 67-68: resolved_elements.append(self._resolve_element(stmt))
element ==
    /\ UNCHANGED others
    /\ AtStatement
    /\ Cur.k = "el"
    /\ Yield(PlaceResult(_resolve_element(Good(heap), variables, color_vars, Cur.ref),
                         Cur.ref))
    /\ hist' = [hist EXCEPT !.last = [op |-> "element"]]
    /\ UNCHANGED <<boxes, counter, doc, variables, color_vars, templates, _loop_depth>>

ForEntered(setup) ==
    IF setup.ok
    THEN /\ stack' = Append(stack,
                 ForFrame(Cur, setup, DictGet(variables, Cur.var_name),
                          DictGet(variables, Cur.var_name)))
         /\ _loop_depth' = _loop_depth + 1
         /\ hist' = [hist EXCEPT !.last = [op |-> "for_enter",
                                           n_iters |-> setup.n_iters]]
         /\ UNCHANGED <<status, error>>
    ELSE /\ RaiseError(setup.err)
         /\ hist' = [hist EXCEPT !.last = [op |-> "for_reject"]]
         /\ UNCHANGED <<stack, _loop_depth>>

\* _handle_for up to its first while test (lines 127-179)
for_enter ==
    /\ UNCHANGED others
    /\ AtStatement
    /\ Cur.k = "for"
    /\ ForEntered(ForSetup(variables, _loop_depth, Cur))
    /\ UNCHANGED <<boxes, counter, doc, heap, variables, color_vars, templates, resolved_elements>>

AtWhile ==
    /\ status = "running"
    /\ stack # <<>>
    /\ Top.k = "for"

\* lines 182-185: the body copied, its names interpolated, then resolved
BodyCopied(body_copy) ==
    /\ heap' = body_copy.h
    /\ stack' = Append([stack EXCEPT ![Len(stack)].h_iters = @ + 1],
                       StmtsFrame(body_copy.stmts))

Interpolated(copy, vs) == _interpolate_names(copy.h, vs, copy.stmts)

\* one pass of the while test into the body (lines 180-185)
for_iterate ==
    /\ UNCHANGED others
    /\ AtWhile
    /\ WhileCond(Top.i, Top.end_n, Top.step_n)
    /\ variables' = DictSet(variables, Top.stmt.var_name, Value(Top.i, None))
    /\ BodyCopied(Interpolated(deepcopy_statements(heap, Top.stmt.body),
                               DictSet(variables, Top.stmt.var_name,
                                       Value(Top.i, None))))
    /\ hist' = [hist EXCEPT
                  !.last = [op |-> "for_iterate", stmt |-> Top.stmt,
                            value |-> Top.i, k |-> Top.h_iters,
                            start_n |-> Top.h_start, end_n |-> Top.end_n,
                            step_n |-> Top.step_n],
                  !.iterated = @ + 1]
    /\ UNCHANGED <<boxes, counter, doc, color_vars, templates, _loop_depth, resolved_elements,
                   status, error>>

\* _resolve_statements runs off the end of its list and returns: to
\* _handle_for, which steps i (line 186), or to Resolver.resolve (line 49)
statements_return ==
    /\ UNCHANGED others
    /\ status = "running"
    /\ stack # <<>>
    /\ Top.k = "stmts"
    /\ Top.pc > Len(Top.statements)
    /\ IF Len(stack) = 1
       THEN /\ stack' = <<>>
            /\ status' = "done"
       ELSE /\ stack' = [Pop(stack) EXCEPT ![Len(stack) - 1].i =
                             RAdd(@, stack[Len(stack) - 1].step_n)]
            /\ status' = status
    /\ hist' = [hist EXCEPT !.last = [op |-> "return"]]
    /\ UNCHANGED <<boxes, counter, doc, heap, variables, color_vars, templates, _loop_depth,
                   resolved_elements, error>>

for_exit_scoped ==
    /\ UNCHANGED others
    /\ AtWhile
    /\ ~WhileCond(Top.i, Top.end_n, Top.step_n)
    /\ _loop_depth' = _loop_depth - 1
    /\ variables' = RestoreVariable(variables, Top.stmt.var_name, Top.old_var)
    /\ LET e == Emit(Pop(stack), resolved_elements, Top.resolved_elements)
       IN  /\ stack' = e.stack
           /\ resolved_elements' = e.out
    /\ hist' = [hist EXCEPT
                  !.last = [op |-> "for_exit", stmt |-> Top.stmt,
                            var_name |-> Top.stmt.var_name, pre |-> Top.h_pre,
                            start_n |-> Top.h_start, end_n |-> Top.end_n,
                            step_n |-> Top.step_n, next |-> Top.i,
                            iters |-> Top.h_iters, n_iters |-> Top.h_n_iters,
                            out |-> Top.resolved_elements]]
    /\ color_vars' = EmptyDict
    /\ templates' = EmptyDict
    /\ UNCHANGED <<boxes, counter, doc, heap, status, error>>

\* the while test fails: the finally block, then return resolved_elements,
\* which the caller extends its list with (lines 187-195, 65-66)
for_exit ==
    /\ UNCHANGED others
    /\ AtWhile
    /\ ~WhileCond(Top.i, Top.end_n, Top.step_n)
    /\ _loop_depth' = _loop_depth - 1
    /\ variables' = RestoreVariable(variables, Top.stmt.var_name, Top.old_var)
    /\ LET e == Emit(Pop(stack), resolved_elements, Top.resolved_elements)
       IN  /\ stack' = e.stack
           /\ resolved_elements' = e.out
    /\ hist' = [hist EXCEPT
                  !.last = [op |-> "for_exit", stmt |-> Top.stmt,
                            var_name |-> Top.stmt.var_name, pre |-> Top.h_pre,
                            start_n |-> Top.h_start, end_n |-> Top.end_n,
                            step_n |-> Top.step_n, next |-> Top.i,
                            iters |-> Top.h_iters, n_iters |-> Top.h_n_iters,
                            out |-> Top.resolved_elements]]
    /\ UNCHANGED <<boxes, counter, doc, heap, color_vars, templates, status, error>>

propagate_unbalanced ==
    /\ UNCHANGED others
    /\ status = "raising"
    /\ IF stack = <<>>
       THEN /\ status' = "error"
            /\ hist' = [hist EXCEPT !.last = [op |-> "raised"]]
            /\ UNCHANGED <<stack, _loop_depth, variables>>
       ELSE /\ stack' = Pop(stack)
            /\ status' = status
            /\ IF Top.k = "for"
               THEN /\ _loop_depth' = _loop_depth
                    /\ variables' = RestoreVariable(variables, Top.stmt.var_name,
                                                    Top.old_var)
                    /\ hist' = [hist EXCEPT !.last = [op |-> "for_unwind", var_name |-> Top.stmt.var_name,
                                pre |-> Top.h_pre]]
               ELSE /\ hist' = [hist EXCEPT !.last = [op |-> "unwind"]]
                    /\ UNCHANGED <<_loop_depth, variables>>
    /\ UNCHANGED <<boxes, counter, doc, heap, color_vars, templates, resolved_elements, error>>

\* a ResolveError leaves the innermost call: a _handle_for runs its finally
\* block on the way; out of Resolver.resolve it reaches the caller
propagate ==
    /\ UNCHANGED others
    /\ status = "raising"
    /\ IF stack = <<>>
       THEN /\ status' = "error"
            /\ hist' = [hist EXCEPT !.last = [op |-> "raised"]]
            /\ UNCHANGED <<stack, _loop_depth, variables>>
       ELSE /\ stack' = Pop(stack)
            /\ status' = status
            /\ IF Top.k = "for"
               THEN /\ _loop_depth' = _loop_depth - 1
                    /\ variables' = RestoreVariable(variables, Top.stmt.var_name,
                                                    Top.old_var)
                    /\ hist' = [hist EXCEPT !.last = [op |-> "for_unwind", var_name |-> Top.stmt.var_name,
                                pre |-> Top.h_pre]]
               ELSE /\ hist' = [hist EXCEPT !.last = [op |-> "unwind"]]
                    /\ UNCHANGED <<_loop_depth, variables>>
    /\ UNCHANGED <<boxes, counter, doc, heap, color_vars, templates, resolved_elements, error>>

----------------------------------------------------------------------------
(* units and Value.to_pixels.                                              *)

_PX_PER_UNIT ==
    [u \in {"pixels", "px", "cm", "mm", "meters", "m", "in", "pt"} |->
        CASE u \in {"pixels", "px"} -> RInt(1)
          [] u = "cm" -> Rat(377953, 10000)
          [] u = "mm" -> Rat(377953, 100000)
          [] u \in {"meters", "m"} -> Rat(377953, 100)
          [] u = "in" -> RInt(96)
          [] u = "pt" -> Rat(13333, 10000)]

_NATURAL_FRACTIONS ==
    [u \in {"tiny", "small", "medium", "large", "huge", "full", "half", "third",
            "quarter"} |->
        CASE u = "tiny" -> Rat(1, 10)
          [] u \in {"small", "quarter"} -> Rat(1, 4)
          [] u \in {"medium", "half"} -> Rat(1, 2)
          [] u = "large" -> Rat(3, 4)
          [] u = "huge" -> Rat(9, 10)
          [] u = "full" -> RInt(1)
          [] u = "third" -> Rat(1, 3)]

to_pixels_falsy(v, container_size) ==
    IF v.unit = None \/ v.unit \in {"pixels", "px"} THEN Ok(v.number)
    ELSE IF v.unit = "%" THEN
        IF container_size = NoneV \/ container_size = RInt(0)
        THEN Raise("Cannot resolve percentage without container size")
        ELSE Ok(RMul(RDiv(v.number, RInt(100)), container_size))
    ELSE IF v.unit \in DOMAIN _NATURAL_FRACTIONS THEN
        IF container_size = NoneV \/ container_size = RInt(0)
        THEN Raise("Cannot resolve '" \o v.unit \o "' without container size")
        ELSE Ok(RMul(_NATURAL_FRACTIONS[v.unit], container_size))
    ELSE IF v.unit \in DOMAIN _PX_PER_UNIT THEN
        Ok(RMul(v.number, _PX_PER_UNIT[v.unit]))
    ELSE Raise("Unknown unit: " \o v.unit)

\* Value.to_pixels(container_size); container_size is NoneV when not given.
\* A ValueError is a raise.
to_pixels(v, container_size) ==
    IF v.unit = None \/ v.unit \in {"pixels", "px"} THEN Ok(v.number)
    ELSE IF v.unit = "%" THEN
        IF container_size = NoneV
        THEN Raise("Cannot resolve percentage without container size")
        ELSE Ok(RMul(RDiv(v.number, RInt(100)), container_size))
    ELSE IF v.unit \in DOMAIN _NATURAL_FRACTIONS THEN
        IF container_size = NoneV
        THEN Raise("Cannot resolve '" \o v.unit \o "' without container size")
        ELSE Ok(RMul(_NATURAL_FRACTIONS[v.unit], container_size))
    ELSE IF v.unit \in DOMAIN _PX_PER_UNIT THEN
        Ok(RMul(v.number, _PX_PER_UNIT[v.unit]))
    ELSE Raise("Unknown unit: " \o v.unit)

----------------------------------------------------------------------------
(* converter.layout: positions to absolute pixel boxes.  The layout reads  *)
(* a resolved document: elements as trees, their fields Values.            *)

ResolvedBox(x, y, width, height) ==
    [x |-> x, y |-> y, width |-> width, height |-> height]

DEFAULT_CANVAS_W == 800
DEFAULT_CANVAS_H == 600

_ANCHOR_FRACTIONS ==
    [a \in {"center", "top", "bottom", "left", "right", "top left", "top right",
            "bottom left", "bottom right", "center left", "center right",
            "center top", "center bottom"} |->
        CASE a = "center" -> <<Rat(1, 2), Rat(1, 2)>>
          [] a \in {"top", "center top"} -> <<Rat(1, 2), RInt(0)>>
          [] a \in {"bottom", "center bottom"} -> <<Rat(1, 2), RInt(1)>>
          [] a \in {"left", "center left"} -> <<RInt(0), Rat(1, 2)>>
          [] a \in {"right", "center right"} -> <<RInt(1), Rat(1, 2)>>
          [] a = "top left" -> <<RInt(0), RInt(0)>>
          [] a = "top right" -> <<RInt(1), RInt(0)>>
          [] a = "bottom left" -> <<RInt(0), RInt(1)>>
          [] a = "bottom right" -> <<RInt(1), RInt(1)>>]

\* _ANCHOR_FRACTIONS.get(anchor, (0.5, 0.5))
Fractions(anchor) ==
    IF anchor \in DOMAIN _ANCHOR_FRACTIONS THEN _ANCHOR_FRACTIONS[anchor]
    ELSE <<Rat(1, 2), Rat(1, 2)>>

\* the text of a string: its tokens joined, a placeholder as written
RECURSIVE Joined(_)
Joined(toks) ==
    IF toks = <<>> THEN ""
    ELSE (IF Head(toks).lit THEN Head(toks).s ELSE "{" \o Head(toks).s \o "}")
         \o Joined(Tail(toks))

StrText(s) == Joined(s.toks)

\* a non-None, non-empty plain string (anchor, relative, ref_anchor)
TruthyName(s) == s # None /\ s # ""

\* an (x, y) returned, or a ValueError raised
Point(x, y) == [ok |-> TRUE, err |-> "", x |-> x, y |-> y]
PointRaise(msg) == [ok |-> FALSE, err |-> msg, x |-> RInt(0), y |-> RInt(0)]

Half(v) == RDiv(v, RInt(2))

Anchored_unsized(anchor, el_w, el_h, bx, by, bw, bh) ==
    Point(RAdd(bx, RMul(Fractions(anchor)[1], bw)),
          RAdd(by, RMul(Fractions(anchor)[2], bh)))

\* the element placed in the box (bx, by, bw, bh) at the anchor's fractions
Anchored(anchor, el_w, el_h, bx, by, bw, bh) ==
    Point(RAdd(bx, RMul(Fractions(anchor)[1], RSub(bw, el_w))),
          RAdd(by, RMul(Fractions(anchor)[2], RSub(bh, el_h))))

_resolve_anchor_in(anchor, el_w, el_h, ref_box) ==
    Anchored(anchor, el_w, el_h, ref_box.x, ref_box.y, ref_box.width, ref_box.height)

\* lines 171-200, gap being pos.gap in pixels
RelativeTo(pos, el_w, el_h, ref_box, gap) ==
    IF pos.relative = "below" THEN
        Point(RSub(RAdd(ref_box.x, Half(ref_box.width)), Half(el_w)),
              RAdd(RAdd(ref_box.y, ref_box.height), gap))
    ELSE IF pos.relative = "above" THEN
        Point(RSub(RAdd(ref_box.x, Half(ref_box.width)), Half(el_w)),
              RSub(RSub(ref_box.y, el_h), gap))
    ELSE IF pos.relative = "right of" THEN
        Point(RAdd(RAdd(ref_box.x, ref_box.width), gap),
              RSub(RAdd(ref_box.y, Half(ref_box.height)), Half(el_h)))
    ELSE IF pos.relative = "left of" THEN
        Point(RSub(RSub(ref_box.x, el_w), gap),
              RSub(RAdd(ref_box.y, Half(ref_box.height)), Half(el_h)))
    ELSE IF pos.relative = "inside" THEN
        IF TruthyName(pos.ref_anchor)
        THEN _resolve_anchor_in(pos.ref_anchor, el_w, el_h, ref_box)
        ELSE Point(RSub(RAdd(ref_box.x, Half(ref_box.width)), Half(el_w)),
                   RSub(RAdd(ref_box.y, Half(ref_box.height)), Half(el_h)))
    ELSE Point(ref_box.x, ref_box.y)

WithGap_ignored(pos, el_w, el_h, ref_box, gap) ==
    IF gap.ok THEN RelativeTo(pos, el_w, el_h, ref_box, RInt(0))
    ELSE PointRaise(gap.err)

\* line 169 evaluated, then the rest
WithGap(pos, el_w, el_h, ref_box, gap) ==
    IF gap.ok THEN RelativeTo(pos, el_w, el_h, ref_box, gap.val)
    ELSE PointRaise(gap.err)

_resolve_relative(pos, el_w, el_h, ref_box) ==
    WithGap(pos, el_w, el_h, ref_box,
            IF pos.gap # NoneV THEN to_pixels(pos.gap, NoneV) ELSE Ok(RInt(0)))

\* the point taken as the element's corner
Centered_corner(x, y, el_w, el_h) ==
    IF ~x.ok THEN PointRaise(x.err)
    ELSE IF ~y.ok THEN PointRaise(y.err)
    ELSE Point(x.val, y.val)

\* lines 121-124, x and y being pos.x and pos.y in pixels
Centered(x, y, el_w, el_h) ==
    IF ~x.ok THEN PointRaise(x.err)
    ELSE IF ~y.ok THEN PointRaise(y.err)
    ELSE Point(RSub(x.val, Half(el_w)), RSub(y.val, Half(el_h)))

\* boxes.get(pos.reference) is a box
Found(bxs, reference) == Truthy(reference) /\ StrText(reference) \in DOMAIN bxs

layout_resolve_position_to_origin(pos, el_w, el_h, container_w, container_h, container_x, container_y, bxs) ==
    IF pos = NoneV THEN Point(container_x, container_y)
    ELSE IF pos.x # NoneV /\ pos.y # NoneV THEN
        Centered(to_pixels(pos.x, container_w), to_pixels(pos.y, container_h),
                 el_w, el_h)
    ELSE IF TruthyName(pos.relative) /\ Found(bxs, pos.reference) THEN
        _resolve_relative(pos, el_w, el_h, bxs[StrText(pos.reference)])
    ELSE IF TruthyName(pos.anchor) /\ Found(bxs, pos.reference) THEN
        _resolve_anchor_in(pos.anchor, el_w, el_h, bxs[StrText(pos.reference)])
    ELSE IF TruthyName(pos.anchor) /\ ~Truthy(pos.reference) THEN
        Anchored(pos.anchor, el_w, el_h, container_x, container_y,
                 container_w, container_h)
    ELSE Point(container_x, container_y)

\* layout._resolve_position
layout_resolve_position(pos, el_w, el_h, container_w, container_h, container_x, container_y, bxs) ==
    IF pos = NoneV THEN Point(container_x, container_y)
    ELSE IF pos.x # NoneV /\ pos.y # NoneV THEN
        Centered(to_pixels(pos.x, container_w), to_pixels(pos.y, container_h),
                 el_w, el_h)
    ELSE IF TruthyName(pos.relative) /\ Found(bxs, pos.reference) THEN
        _resolve_relative(pos, el_w, el_h, bxs[StrText(pos.reference)])
    ELSE IF TruthyName(pos.anchor) THEN
        IF Found(bxs, pos.reference)
        THEN _resolve_anchor_in(pos.anchor, el_w, el_h, bxs[StrText(pos.reference)])
        ELSE Anchored(pos.anchor, el_w, el_h, container_x, container_y,
                      container_w, container_h)
    ELSE Point(container_x, container_y)

\* el.name or f"__element_{counter}"
ElementKey_from_one(el, n) ==
    IF Truthy(el.name) THEN StrText(el.name)
    ELSE "__element_" \o ToString(n + 1)

ElementKey(el, n) ==
    IF Truthy(el.name) THEN StrText(el.name) ELSE "__element_" \o ToString(n)

RMin(a, b) == IF RLe(a, b) THEN a ELSE b

\* field.to_pixels(container_size) if field else 0.0
Pixels(field, container_size) ==
    IF field # NoneV THEN to_pixels(field, container_size) ELSE Ok(RInt(0))

\* a (w, h), or a ValueError raised
Size(w, h) == [ok |-> TRUE, err |-> "", w |-> w, h |-> h]
SizeRaise(msg) == [ok |-> FALSE, err |-> msg, w |-> RInt(0), h |-> RInt(0)]

Doubled(r) ==
    IF r.ok THEN Size(RMul(r.val, RInt(2)), RMul(r.val, RInt(2)))
    ELSE SizeRaise(r.err)

\* lines 81-88, w, h and r being the three conversions
SizeFrom(el, w, h, r) ==
    IF ~w.ok THEN SizeRaise(w.err)
    ELSE IF ~h.ok THEN SizeRaise(h.err)
    ELSE IF el.element_type = "circle" /\ el.radius # NoneV THEN Doubled(r)
    ELSE Size(w.val, h.val)

ElementSize(el, container_w, container_h) ==
    SizeFrom(el, Pixels(el.width, container_w), Pixels(el.height, container_h),
             Pixels(el.radius, RMin(container_w, container_h)))

\* Document.elements, Document.canvas
Elements(statements) == SelectSeq(statements, LAMBDA st : st.k = "element")

IsCanvas(el) == el.element_type = "canvas"

HasCanvas(statements) == SelectSeq(Elements(statements), IsCanvas) # <<>>

canvas(statements) == Head(SelectSeq(Elements(statements), IsCanvas))

\* lines 48-49
CanvasSide(statements, side, default) ==
    IF HasCanvas(statements) /\ canvas(statements)[side] # NoneV
    THEN to_pixels(canvas(statements)[side], NoneV)
    ELSE Ok(RInt(default))

\* A call of layout._resolve_element over a list of elements: the top-level
\* loop of resolve_layout, or the loop over an element's children.
LayoutFrame(elements, container_w, container_h, container_x, container_y) ==
    [k |-> "layout", elements |-> elements, pc |-> 1,
     container_w |-> container_w, container_h |-> container_h,
     container_x |-> container_x, container_y |-> container_y]

LayoutRaise(msg) ==
    /\ status' = "error"
    /\ error' = msg
    /\ UNCHANGED <<stack, boxes, counter>>

\* lines 51-58, canvas_w and canvas_h being the two conversions
LayoutStarted(canvas_w, canvas_h) ==
    IF ~canvas_w.ok THEN LayoutRaise(canvas_w.err)
    ELSE IF ~canvas_h.ok THEN LayoutRaise(canvas_h.err)
    ELSE /\ boxes' = IF HasCanvas(doc)
                     THEN DictSet(EmptyDict,
                                  IF Truthy(canvas(doc).name)
                                  THEN StrText(canvas(doc).name) ELSE "__canvas",
                                  ResolvedBox(RInt(0), RInt(0), canvas_w.val,
                                              canvas_h.val))
                     ELSE EmptyDict
         /\ counter' = 0
         /\ stack' = <<LayoutFrame(Elements(doc), canvas_w.val, canvas_h.val,
                                   RInt(0), RInt(0))>>
         /\ status' = "laying"
         /\ error' = error

\* resolve_layout up to its loop (lines 47-58)
resolve_layout ==
    /\ UNCHANGED others
    /\ status = "layout"
    /\ LayoutStarted(CanvasSide(doc, "width", DEFAULT_CANVAS_W),
                     CanvasSide(doc, "height", DEFAULT_CANVAS_H))
    /\ hist' = [hist EXCEPT !.last = [op |-> "resolve_layout"]]
    /\ UNCHANGED <<doc, heap, variables, color_vars, templates, _loop_depth,
                   resolved_elements>>

AtElement ==
    /\ status = "laying"
    /\ stack # <<>>
    /\ Top.pc <= Len(Top.elements)

\* lines 60-61
skip_canvas ==
    /\ UNCHANGED others
    /\ AtElement
    /\ Len(stack) = 1
    /\ IsCanvas(Top.elements[Top.pc])
    /\ Advance
    /\ hist' = [hist EXCEPT !.last = [op |-> "skip_canvas"]]
    /\ UNCHANGED <<doc, heap, variables, color_vars, templates, _loop_depth,
                   resolved_elements, status, error, boxes, counter>>

Boxed_origin(el, size, at) ==
    IF ~at.ok THEN LayoutRaise(at.err)
    ELSE /\ boxes' = DictSet(boxes, ElementKey(el, counter),
                             ResolvedBox(at.x, at.y, size.w, size.h))
         /\ counter' = counter + 1
         /\ stack' = Append([stack EXCEPT ![Len(stack)].pc = @ + 1],
                            LayoutFrame(el.children, size.w, size.h,
                                        RInt(0), RInt(0)))
         /\ UNCHANGED <<status, error>>

\* lines 95-100: the box stored, then the children with it as container
Boxed(el, size, at) ==
    IF ~at.ok THEN LayoutRaise(at.err)
    ELSE /\ boxes' = DictSet(boxes, ElementKey(el, counter),
                             ResolvedBox(at.x, at.y, size.w, size.h))
         /\ counter' = counter + 1
         /\ stack' = Append([stack EXCEPT ![Len(stack)].pc = @ + 1],
                            LayoutFrame(el.children, size.w, size.h, at.x, at.y))
         /\ UNCHANGED <<status, error>>

\* lines 91-93, size being (w, h)
Sized(el, frame, size) ==
    IF ~size.ok THEN LayoutRaise(size.err)
    ELSE Boxed(el, size,
               layout_resolve_position(el.position, size.w, size.h,
                                       frame.container_w, frame.container_h,
                                       frame.container_x, frame.container_y, boxes))

\* what the step did: the element, its container, the box map it saw and
\* the outcome; hist.laid collects the boxes computed, in the order computed
Laid(el, frame) ==
    [op |-> "layout", el |-> el, key |-> ElementKey(el, counter),
     container |-> ResolvedBox(frame.container_x, frame.container_y,
                               frame.container_w, frame.container_h),
     before |-> boxes, raised |-> status' = "error",
     box |-> IF status' = "error" THEN NoneV
             ELSE boxes'[ElementKey(el, counter)]]

\* layout._resolve_element up to its loop over the children (lines 77-96)
layout_resolve_element ==
    /\ UNCHANGED others
    /\ AtElement
    /\ ~(Len(stack) = 1 /\ IsCanvas(Top.elements[Top.pc]))
    /\ Sized(Top.elements[Top.pc], Top,
             ElementSize(Top.elements[Top.pc], Top.container_w, Top.container_h))
    /\ hist' = [hist EXCEPT !.last = Laid(Top.elements[Top.pc], Top),
                             !.laid = IF status' = "error" THEN @
                                      ELSE Append(@, boxes'[ElementKey(
                                               Top.elements[Top.pc], counter)])]
    /\ UNCHANGED <<doc, heap, variables, color_vars, templates, _loop_depth,
                   resolved_elements>>

\* a loop over elements ends: layout._resolve_element returns counter, or
\* resolve_layout returns boxes
layout_return ==
    /\ UNCHANGED others
    /\ status = "laying"
    /\ stack # <<>>
    /\ Top.pc > Len(Top.elements)
    /\ stack' = Pop(stack)
    /\ status' = IF Len(stack) = 1 THEN "laid" ELSE status
    /\ hist' = [hist EXCEPT !.last = [op |-> "layout_return"]]
    /\ UNCHANGED <<doc, heap, variables, color_vars, templates, _loop_depth,
                   resolved_elements, error, boxes, counter>>

----------------------------------------------------------------------------
(* The documents resolved: what the parser hands to Resolver.resolve.      *)

MaxBound == 2       \* loop bounds range over -1..MaxBound
MaxStep == 2        \* explicit steps range over -MaxStep..MaxStep
MaxNest == 6        \* for loops are nested up to MaxNest deep

L(i) == LiteralExpr(Num(i))
Name(s) == Str(<<Lit(s)>>)
Rect(name, width, height) ==
    [Element("rect", name) EXCEPT !.width = width, !.height = height]
Canvas == [Element("canvas", NoneV) EXCEPT !.width = Num(400), !.height = Num(400)]
Box_i == Str(<<Lit("Box_"), Ph("i")>>)
After == Rect(Name("After"), VarRefExpr("i"), Num(50))

\* for i from a to b [step s], the loop variable bound beforehand or not,
\* and a reference to i after the loop
LoopBodies ==
    { <<Rect(Box_i, VarRefExpr("i"), Num(50))>>,
      <<IsStatement("x", BinaryExpr("*", VarRefExpr("i"), L(2))),
        Rect(Box_i, VarRefExpr("x"), Num(50))>>,
      <<IsStatement("i", L(7)), Rect(Box_i, VarRefExpr("i"), Num(50))>> }

Steps == {NoneV} \cup {L(k) : k \in -MaxStep..MaxStep}

LoopDoc(pre, a, b, step, body) ==
    (IF pre THEN <<IsStatement("i", L(99))>> ELSE <<>>)
    \o <<Canvas, ForStatement("i", L(a), L(b), step, body), After>>

LoopDocs ==
    { LoopDoc(pre, a, b, step, body) :
        pre \in BOOLEAN, a \in -1..MaxBound, b \in -1..MaxBound,
        step \in Steps, body \in LoopBodies }

\* loops at the iteration ceiling
BigLoop(a, b, step) ==
    <<ForStatement("i", L(a), L(b), step,
                   <<IsStatement("x", VarRefExpr("i"))>>),
      Rect(Name("Last"), VarRefExpr("x"), Num(50))>>

BigLoopDocs ==
    { BigLoop(1, _MAX_LOOP_ITERATIONS, NoneV),
      BigLoop(0, _MAX_LOOP_ITERATIONS, NoneV),
      BigLoop(2 * _MAX_LOOP_ITERATIONS - 2, 0, L(-2)),
      BigLoop(0, 2 * _MAX_LOOP_ITERATIONS, L(2)),
      BigLoop(0, 2 * _MAX_LOOP_ITERATIONS + 1, L(2)),
      BigLoop(_MAX_LOOP_ITERATIONS, 0, L(-1)),
      <<IsStatement("i", L(5)),
        ForStatement("i", L(0), L(10 * _MAX_LOOP_ITERATIONS), NoneV,
                     <<Rect(Box_i, Num(50), Num(50))>>),
        After>> }

\* steps finer than the tolerance of the while test: 2^-30 < 1e-9 < 2^-29
Fine(n) == LiteralExpr(Value(Rat(n, 1073741824), None))

FineStepDocs ==
    { <<IsStatement("i", L(99)),
        ForStatement("i", L(a), L(a), Fine(n),
                     <<Rect(Name("Box"), VarRefExpr("i"), Num(50))>>),
        After>> : a \in 0..1, n \in {-2, -1, 1, 2} }

\* for v1 .. for vd, the innermost loop being `inner`
RECURSIVE Nest(_, _, _)
Nest(d, hi, inner) ==
    IF d = 1 THEN inner
    ELSE ForStatement("v" \o ToString(d), L(0), L(hi), NoneV,
                      <<Nest(d - 1, hi, inner)>>)

InnerLoops ==
    { ForStatement("v1", L(0), L(1), NoneV, <<Rect(Name("Box"), Num(50), Num(50))>>),
      ForStatement("v1", L(0), L(5), L(0), <<Rect(Name("Box"), Num(50), Num(50))>>),
      ForStatement("v1", L(3), L(0), L(1), <<Rect(Name("Box"), Num(50), Num(50))>>),
      ForStatement("v1", VarRefExpr("nope"), L(1), NoneV,
                   <<Rect(Name("Box"), Num(50), Num(50))>>),
      ForStatement("v1", LiteralExpr(Value(RInt(0), "px")), L(1), NoneV,
                   <<Rect(Name("Box"), Num(50), Num(50))>>),
      ForStatement("v1", L(0), L(10 * _MAX_LOOP_ITERATIONS), NoneV,
                   <<Rect(Name("Box"), Num(50), Num(50))>>) }

NestDocs ==
    { <<Canvas, Nest(d, hi, inner), Rect(Name("End"), Num(1), Num(1))>> :
        d \in 1..MaxNest, hi \in 0..1, inner \in InnerLoops }

\* definitions and uses of variables in every order
UseDefStatements ==
    << IsStatement("x", L(5)),
       IsStatement("y", BinaryExpr("+", VarRefExpr("x"), L(1))),
       Rect(Name("R"), VarRefExpr("y"), VarRefExpr("x")),
       IsStatement("x", L(6)) >>

MaxStatements == 3  \* statements in a use/definition document

UseDefDocs ==
    { [i \in DOMAIN p |-> UseDefStatements[p[i]]] :
        p \in UNION { [1..m -> 1..Len(UseDefStatements)] : m \in 1..MaxStatements } }

\* z is L op R
Units == {None, "px", "%", "cm"}
Numbers == {0, 2, 3}
Operands == { Value(RInt(n), u) : n \in Numbers, u \in Units }
Operators == {"+", "-", "*", "/"}

BinaryDocs ==
    { <<IsStatement("z", BinaryExpr(op, LiteralExpr(l), LiteralExpr(r)))>> :
        op \in Operators, l \in Operands, r \in Operands }


\* templates, placements, palettes: the statement kinds side by side
Blue == ColorRef("blue")
Tile ==
    [Rect(Str(<<Lit("Tile_"), Ph("i")>>), VarRefExpr("w"), Num(20)) EXCEPT
        !.fill = ColorRef("primary"),
        !.stroke = StrokeStyle(Color("black"), L(2), None),
        !.position = Position(NoneV, NoneV, "center", None, NoneV, None, NoneV),
        !.text_style = TextStyle(VarRefExpr("w"), ColorRef("red")),
        !.children = <<[Element("circle", Name("Dot")) EXCEPT !.radius = Num(3)]>>]
Pair == <<Rect(Name("Left"), Num(10), L(10)), Rect(NoneV, VarRefExpr("w"), Num(10))>>

At(x, y) == Position(x, y, None, None, NoneV, None, NoneV)
Below(reference) == Position(NoneV, NoneV, None, "below", reference, None, L(5))

Place(template_name, instance_name, props, position, scale) ==
    PlaceStatement(template_name, instance_name, props, position, scale, NoneV)

Palette == ColorsBlock(<<ColorAssignment("primary", "red"),
                         ColorAssignment("odd", "unicorn")>>)

TemplateDocs ==
    { <<Palette, IsStatement("w", L(4)), DefineBlock("T", <<Tile>>),
        Place("T", Name("A"), <<>>, At(L(1), VarRefExpr("w")), NoneV),
        Place("T", Name("B"), <<>>, p, s)>> :
        p \in {NoneV, At(L(2), L(2)), Below(Name("A"))}, s \in {NoneV, L(2)} }
    \cup
    { <<Palette, IsStatement("w", L(4)), DefineBlock("T", body),
        ForStatement("i", L(0), L(1), NoneV,
            <<Place("T", Str(<<Lit("P_"), Ph("i")>>), props,
                    Below(Str(<<Lit("P_"), Ph("j")>>)), L(3))>>),
        Place("T", NoneV, props, NoneV, NoneV),
        Rect(Name("Plain"), Num(1), Num(1))>> :
        body \in {<<Tile>>, Pair, <<>>},
        props \in { <<>>,
                    <<[key |-> "stroke", val |-> StrokeStyle(Blue, Num(1), "dashed")],
                      [key |-> "fill", val |-> Color("blue")],
                      [key |-> "width", val |-> Num(9)]>>,
                    <<[key |-> "background", val |-> ColorRef("not_a_color_var")]>> } }
    \cup
    { <<Place("T", Name("A"), <<>>, NoneV, NoneV)>>,
      <<DefineBlock("T", <<Tile>>), Place("T", Name("A"), <<>>, NoneV, NoneV)>>,
      <<Palette, IsStatement("w", L(4)),
        DefineBlock("T", <<[Tile EXCEPT !.fill = ColorRef("unicorn")]>>),
        Place("T", Name("A"), <<>>, NoneV, NoneV)>>,
      <<IsStatement("w", L(4)), DefineBlock("T", Pair),
        PlaceStatement("T", Name("G"), <<>>, NoneV, VarRefExpr("w"), L(90)),
        PlaceStatement("T", Name("H"), <<>>, NoneV, NoneV, VarRefExpr("nope"))>>,
      <<Canvas, Rect(Name("A"), Num(1), L(2)),
        [Rect(Name("B"), Num(3), Num(4)) EXCEPT
            !.children = <<Rect(Name("C"), Num(5), Num(6))>>,
            !.opacity = L(1), !.rotate = L(45), !.rounded = Num(2)],
        Rect(NoneV, Num(7), Num(8))>> }

Docs ==
    LoopDocs \cup FineStepDocs \cup NestDocs \cup UseDefDocs \cup BinaryDocs
    \cup TemplateDocs

----------------------------------------------------------------------------
(* Resolver.__init__ and the call of Resolver.resolve(doc).                *)

\* no convert, no second call and no to_pixels call is under way
NoConvert == skip_lint = FALSE /\ diagnostics = <<>> /\ svg = ""
NoPair == suspended = NoneV
NoUnits == px_value = NoneV /\ px_container = NoneV /\ pixels = NoneV
NoWide == wide = NoneV

InitWith(docs) ==
    /\ doc \in docs
    /\ heap = StmtsObjects(doc, 1).objs
    /\ stack = <<StmtsFrame(StmtsObjects(doc, 1).stmts)>>
    /\ variables = EmptyDict
    /\ color_vars = EmptyDict
    /\ templates = EmptyDict
    /\ _loop_depth = 0
    /\ resolved_elements = <<>>
    /\ status = "running"
    /\ error = ""
    /\ boxes = EmptyDict
    /\ counter = 0
    /\ hist = [last |-> [op |-> "init"], placed |-> <<>>, defined |-> EmptyDict,
               iterated |-> 0, laid |-> <<>>,
               first |-> [resolved |-> FALSE, out |-> <<>>]]
    /\ NoPair
    /\ NoUnits
    /\ NoWide

Init == InitWith(Docs) /\ NoConvert

Next ==
    \/ _handle_is
    \/ _handle_colors
    \/ _handle_define
    \/ place
    \/ element
    \/ for_enter
    \/ for_iterate
    \/ statements_return
    \/ for_exit
    \/ propagate

Spec == Init /\ [][Next]_vars

\* the same resolver on the documents whose loops stand at the iteration
\* ceiling
InitBig == InitWith(BigLoopDocs \cup TemplateDocs) /\ NoConvert

SpecBig == InitBig /\ [][Next]_vars

----------------------------------------------------------------------------
(* The documents laid out: what Resolver.resolve hands to resolve_layout.  *)

Px(i) == Value(RInt(i), "px")

Sheet == [Element("canvas", NoneV) EXCEPT !.width = Px(400), !.height = Px(300)]

Shape(element_type, name, width, height, position) ==
    [Element(element_type, name) EXCEPT
        !.width = width, !.height = height, !.position = position]

Anchor(anchor, reference) ==
    Position(NoneV, NoneV, anchor, None, reference, None, NoneV)
Relative(relative, reference, ref_anchor, gap) ==
    Position(NoneV, NoneV, None, relative, reference, ref_anchor, gap)

Anchors == DOMAIN _ANCHOR_FRACTIONS \cup {"middle"}
References == {Name("A"), Name("G"), Name("Z"), Name("Nowhere")}
Relatives == {"below", "above", "right of", "left of", "inside", "beside"}
Gaps == {NoneV, Px(5), Value(RInt(10), "%")}

Positions ==
    {NoneV, At(Px(30), Value(RInt(50), "%"))}
    \cup { Anchor(a, r) : a \in Anchors, r \in References \cup {NoneV} }
    \cup { Relative(rel, r, ra, g) :
             rel \in Relatives, r \in References, ra \in {None, "top right"},
             g \in Gaps }

\* named and unnamed elements side by side and nested, under a canvas that
\* is unnamed, named or absent
KeyDocs ==
    { sheet \o
      << Shape("rect", first, Px(10), Px(10), NoneV),
         Shape("rect", Name("A"), Px(100), Px(50), NoneV),
         [Shape("group", NoneV, Px(200), Px(100), NoneV)
            EXCEPT !.children =
                << Shape("rect", NoneV, Px(20), Px(10), NoneV),
                   Shape("rect", Name("C"), Px(20), Px(10), NoneV),
                   [Shape("circle", NoneV, NoneV, NoneV, NoneV)
                      EXCEPT !.radius = Px(5)] >>],
         Shape("rect", NoneV, Px(30), Px(10), NoneV) >> :
        sheet \in {<<>>, <<Sheet>>, <<[Sheet EXCEPT !.name = Name("Page")]>>},
        first \in {NoneV, Name("First")} }

\* B, positioned every way, after A and before Z: inside the group G on a
\* canvas, or at the top level of a document without canvas
LayoutDocs ==
    { << Sheet,
         Shape("rect", Name("A"), Px(100), Px(50), At(Px(200), Px(100))),
         [Shape("group", Name("G"), Px(200), Value(RInt(0), "half"),
                At(Px(300), Px(200)))
            EXCEPT !.children = <<Shape("rect", Name("B"), Px(20), Px(10), p)>>],
         Shape("rect", Name("Z"), Px(40), Px(40), Anchor("bottom right", NoneV)) >> :
        p \in Positions }
    \cup
    { << Shape("rect", Name("A"), Px(100), Px(50), At(Px(200), Px(100))),
         Shape("rect", NoneV, Value(RInt(10), "%"), Px(10), p),
         [Shape("circle", NoneV, NoneV, NoneV, NoneV) EXCEPT !.radius = Px(15)],
         Shape("rect", Name("Z"), Px(40), Px(40), NoneV) >> :
        p \in Positions }
    \cup
    { << [Sheet EXCEPT !.width = w],
         Shape("rect", Name("A"), Value(RInt(2), u), Px(50), NoneV) >> :
        w \in {NoneV, Px(400), Value(RInt(50), "%")},
        u \in {"cm", "%", "furlong", "third"} }
    \cup KeyDocs

LayoutInit ==
    /\ doc \in LayoutDocs
    /\ heap = <<>>
    /\ stack = <<>>
    /\ variables = EmptyDict
    /\ color_vars = EmptyDict
    /\ templates = EmptyDict
    /\ _loop_depth = 0
    /\ resolved_elements = <<>>
    /\ status = "layout"
    /\ error = ""
    /\ boxes = EmptyDict
    /\ counter = 0
    /\ hist = [last |-> [op |-> "init"], placed |-> <<>>, defined |-> EmptyDict,
               iterated |-> 0, laid |-> <<>>,
               first |-> [resolved |-> FALSE, out |-> <<>>]]
    /\ NoConvert
    /\ NoPair
    /\ NoUnits
    /\ NoWide

LayoutNext ==
    \/ resolve_layout
    \/ skip_canvas
    \/ layout_resolve_element
    \/ layout_return

LayoutSpec == LayoutInit /\ [][LayoutNext]_vars

----------------------------------------------------------------------------
(* Properties of the resolver.                                             *)

\* the for loops being executed
ForDepth == Cardinality({i \in DOMAIN stack : stack[i].k = "for"})

\* an integer literal without unit
LiteralInt(e) == e.k = "lit" /\ e.value.unit = None /\ e.value.number.d = 1
IntOf(e) == e.value.number.n

\* a loop from a to b, both integer literals
IntegerLoop(stmt) == LiteralInt(stmt.start) /\ LiteralInt(stmt.end)

\* the step of an integer loop: as written, else one toward b
StepOf(stmt) ==
    IF stmt.step # NoneV THEN stmt.step.value.number
    ELSE IF IntOf(stmt.end) >= IntOf(stmt.start) THEN RInt(1) ELSE RInt(-1)

\* C1: once a for loop has finished, by running out or by an error raised
\* in it, the loop variable's name is bound to what it was bound to when the
\* loop began, or unbound if it was unbound then; so a reference to it gives
\* the earlier value, or fails as undefined.
C1_LoopVariableRestored ==
    hist.last.op \in {"for_exit", "for_unwind"} =>
        /\ DictGet(variables, hist.last.var_name) = hist.last.pre
        /\ _eval_expr(variables, VarRefExpr(hist.last.var_name)) =
               IF hist.last.pre = NoneV
               THEN Raise("Undefined variable '" \o hist.last.var_name \o "'")
               ELSE Ok(hist.last.pre)

\* a loop over i that ran at least twice ends with i bound to 99 as before
C1_Witness ==
    /\ hist.last.op = "for_exit"
    /\ hist.last.pre = Num(99)
    /\ hist.last.iters >= 2
    /\ variables[hist.last.var_name] = Num(99)

\* the objects of an element: itself, its position, stroke and text style,
\* and those of its children
RECURSIVE Reach(_, _)
Reach(h, a) ==
    {a} \cup ({h[a].position, h[a].stroke, h[a].text_style} \ {0})
        \cup UNION { Reach(h, h[a].children[i]) : i \in DOMAIN h[a].children }

\* the objects of the templates defined
TemplateObjects ==
    UNION { UNION { Reach(heap, templates[n].body_elements[i]) :
                      i \in DOMAIN templates[n].body_elements } :
              n \in DOMAIN templates }

\* C2: the outputs of any two placements share no object (element,
\* position, stroke, text style, child), no placement's output shares one
\* with a template definition, and every DefineBlock's body is as it was
\* defined.
C2_PlacementsIndependent ==
    /\ \A i, j \in DOMAIN hist.placed :
           i < j => Reach(heap, hist.placed[i]) \cap Reach(heap, hist.placed[j]) = {}
    /\ \A i \in DOMAIN hist.placed :
           Reach(heap, hist.placed[i]) \cap TemplateObjects = {}
    /\ \A n \in DOMAIN templates :
           [i \in 1..Len(templates[n].body_elements) |->
               ElTree(heap, templates[n].body_elements[i])] = hist.defined[n]

\* a template with stroke, position, text style and child placed three
\* times, twice of them by a loop
C2_Witness ==
    /\ status = "done"
    /\ Len(hist.placed) = 3
    /\ \A i \in 1..3 : Cardinality(Reach(heap, hist.placed[i])) = 5
    /\ hist.iterated = 2

\* floor(|end - start| / |step|) + 1 of a loop with integer literal bounds
\* and step
Countable(stmt) ==
    /\ IntegerLoop(stmt)
    /\ stmt.step # NoneV => LiteralInt(stmt.step) /\ IntOf(stmt.step) # 0
    /\ StepOf(stmt).n > 0 => IntOf(stmt.end) >= IntOf(stmt.start)
    /\ StepOf(stmt).n < 0 => IntOf(stmt.end) =< IntOf(stmt.start)

ComputedCount(stmt) ==
    (Abs(IntOf(stmt.end) - IntOf(stmt.start)) \div Abs(StepOf(stmt).n)) + 1

C3_Step ==
    /\ AtStatement /\ Cur.k = "for" /\ Countable(Cur) /\ ComputedCount(Cur) > 10000 =>
           /\ status' = "raising"
           /\ error' = "For loop would produce " \o ToString(ComputedCount(Cur))
                       \o " iterations (max 10000)"
           /\ UNCHANGED <<variables, heap, stack, resolved_elements>>
           /\ hist'.iterated = hist.iterated
    /\ AtStatement /\ Cur.k = "for" /\ Countable(Cur) /\ ComputedCount(Cur) = 10000
       /\ ForDepth < 5 =>
           /\ status' = "running"
           /\ Len(stack') = Len(stack) + 1
           /\ stack'[Len(stack')].k = "for"
    /\ status = "raising" =>
           /\ status' \in {"raising", "error"}
           /\ UNCHANGED <<heap, resolved_elements, error>>
           /\ hist'.iterated = hist.iterated

\* C3: a for loop whose iteration count floor(|end - start| / |step|) + 1
\* is above 10,000 raises before anything of it runs: no frame of it, no
\* binding, no object, no element, no iteration, and the error is never
\* caught; a loop of exactly 10,000 iterations is entered.
C3_IterationCeiling == [][C3_Step]_vars

\* a loop of 100,001 iterations over an outer i is rejected: nothing ran
\* and i is still bound to 5
C3_Witness ==
    /\ status = "error"
    /\ error = "For loop would produce 100001 iterations (max 10000)"
    /\ hist.iterated = 0
    /\ variables = DictSet(EmptyDict, "i", Num(5))
    /\ resolved_elements = <<>>

C4_Step ==
    AtStatement /\ Cur.k = "for" =>
        IF ForDepth >= 5
        THEN /\ status' = "raising"
             /\ error' = "Maximum loop nesting depth (5) exceeded"
             /\ UNCHANGED <<variables, stack, resolved_elements>>
        ELSE error' # "Maximum loop nesting depth (5) exceeded"

\* C4: a for loop reached while five loops are executing raises the depth
\* error whatever its bounds; one reached while fewer are executing is not
\* rejected for depth; so never more than five loops execute at once.
C4_NestingCeiling == [](ForDepth =< 5) /\ [][C4_Step]_vars

\* six nested loops: the sixth was rejected and the error reached the caller
C4_Witness ==
    /\ status = "error"
    /\ error = "Maximum loop nesting depth (5) exceeded"
    /\ hist.iterated = 5

\* the value a loop binds in its k-th iteration, k from 0
KthValue(last, k) == RAdd(last.start_n, RMul(RInt(k), last.step_n))

\* v is not past b in the direction of the step
NotPast(v, b, step_n) ==
    /\ step_n.n > 0 => RLe(v, b)
    /\ step_n.n < 0 => RLe(b, v)

\* v is past b by no more than the tolerance 1e-9 of the while test
NotPastTolerance(v, b, step_n) ==
    /\ step_n.n > 0 => WithinTolerance(RSub(v, b))
    /\ step_n.n < 0 => WithinTolerance(RSub(b, v))

\* the elements of the loop body, in the heap h
BodyElements(stmt) == SelectSeq(stmt.body, LAMBDA st : st.k = "el")

\* the loop body is one element named Box_{var}, possibly after `is`
\* statements
NumberedBody(stmt) ==
    /\ \A i \in DOMAIN stmt.body : stmt.body[i].k \in {"el", "is"}
    /\ Len(BodyElements(stmt)) = 1
    /\ heap[BodyElements(stmt)[1].ref].name =
           Str(<<Lit("Box_"), Ph(stmt.var_name)>>)

\* An iteration of a loop over integers binds start + k * step, the step
\* being as written or one toward the end.
C5_Bound ==
    hist.last.op = "for_iterate" /\ IntegerLoop(hist.last.stmt) =>
        /\ hist.last.start_n = RInt(IntOf(hist.last.stmt.start))
        /\ hist.last.end_n = RInt(IntOf(hist.last.stmt.end))
        /\ hist.last.step_n = StepOf(hist.last.stmt)
        /\ hist.last.value = KthValue(hist.last, hist.last.k)
        /\ variables[hist.last.stmt.var_name] = Value(hist.last.value, None)

\* A loop over integers without step runs |b - a| + 1 times, up to b; the
\* elements of a loop are in the output in iteration order.
C5_CountAndOrder ==
    hist.last.op = "for_exit" /\ IntegerLoop(hist.last.stmt) =>
        /\ hist.last.stmt.step = NoneV =>
               /\ hist.last.iters =
                      Abs(IntOf(hist.last.stmt.end) - IntOf(hist.last.stmt.start)) + 1
               /\ KthValue(hist.last, hist.last.iters - 1) = hist.last.end_n
        /\ hist.last.next = KthValue(hist.last, hist.last.iters)
        /\ NumberedBody(hist.last.stmt) =>
               /\ Len(hist.last.out) = hist.last.iters
               /\ \A k \in DOMAIN hist.last.out :
                      heap[hist.last.out[k]].name =
                          Name("Box_" \o FormatNumber(KthValue(hist.last, k - 1)))

RECURSIVE Refs(_)
Refs(e) ==
    IF e = NoneV \/ IsValue(e) \/ e.k = "lit" THEN {}
    ELSE IF e.k = "var" THEN {e.name}
    ELSE IF e.k = "neg" THEN Refs(e.operand)
    ELSE Refs(e.left) \cup Refs(e.right)

\* a document of `is` statements and of childless elements whose only
\* expressions are width and height
SimpleDoc(d) ==
    \A k \in DOMAIN d :
        \/ d[k].k = "is"
        \/ /\ d[k].k = "element"
           /\ d[k].children = <<>>
           /\ \A f \in {"radius", "rounded", "opacity", "rotate", "position",
                        "stroke", "text_style", "fill", "background"} :
                  d[k][f] = NoneV

Uses(st) ==
    IF st.k = "is" THEN Refs(st.expr) ELSE Refs(st.width) \cup Refs(st.height)

\* the names that statement k of d refers to and that no earlier `is`
\* statement of d defines
Forward(d, k) ==
    Uses(d[k]) \ { d[j].name : j \in { i \in 1..(k - 1) : d[i].k = "is" } }

ForwardStatements(d) == { k \in DOMAIN d : Forward(d, k) # {} }

FirstForward(d) ==
    CHOOSE k \in ForwardStatements(d) : \A j \in ForwardStatements(d) : k =< j

UndefinedVariable(names) == { "Undefined variable '" \o v \o "'" : v \in names }

\* C6: a document in which a statement refers to a name that no earlier
\* `is` statement defines fails, with `Undefined variable` for a name the
\* first such statement refers to, whether or not the name is defined
\* later; a document without such a statement raises no such error.
C6_NoForwardReferences ==
    SimpleDoc(doc) =>
        IF ForwardStatements(doc) # {}
        THEN /\ status # "done"
             /\ status \in {"raising", "error"} =>
                    error \in UndefinedVariable(Forward(doc, FirstForward(doc)))
        ELSE error \notin UndefinedVariable(UNION { Uses(doc[k]) : k \in DOMAIN doc })

\* x is used by the first statement and defined by a later one: the
\* document failed on x
C6_Witness ==
    /\ status = "error"
    /\ SimpleDoc(doc)
    /\ error = "Undefined variable 'x'"
    /\ "x" \in Forward(doc, 1)
    /\ \E k \in DOMAIN doc : k > 1 /\ doc[k].k = "is" /\ doc[k].name = "x"

\* everything produced so far, in the order produced: the list of
\* Resolver.resolve, then those of the loops being executed, outermost first
Produced ==
    resolved_elements
    \o Flatten([i \in DOMAIN stack |->
                   IF stack[i].k = "for" THEN stack[i].resolved_elements ELSE <<>>])

C7_Step ==
    status' \in {"running", "done"} =>
        IF AtStatement /\ Cur.k \in {"el", "place"}
        THEN /\ Len(Produced') = Len(Produced) + 1
             /\ SubSeq(Produced', 1, Len(Produced)) = Produced
             /\ heap'[Produced'[Len(Produced')]].k = "element"
        ELSE Produced' = Produced

\* C7: a step of a successful resolve leaves what was produced as it is,
\* except that a plain Element and a place statement each append exactly
\* one element to it (`is`, `colors:` and `define:` append nothing, a loop
\* what its iterations appended, in that order); the list returned holds
\* only Elements; a document of plain Elements gives those Elements, as
\* many and in the same order.
C7_OutputInEncounterOrder ==
    /\ [][C7_Step]_vars
    /\ [](status = "done" =>
            /\ \A i \in DOMAIN resolved_elements :
                   heap[resolved_elements[i]].k = "element"
            /\ (\A k \in DOMAIN doc : doc[k].k = "element") =>
                   resolved_elements = [k \in DOMAIN doc |-> StmtsObjects(doc, 1).stmts[k].ref])

\* a document with palette, variable, template, a loop placing twice, a
\* placement and a plain element resolved to four elements, the plain one
\* last
C7_Witness ==
    /\ status = "done"
    /\ Len(doc) = 6
    /\ Len(resolved_elements) = 4
    /\ SubSeq(resolved_elements, 1, 3) = hist.placed
    /\ heap[resolved_elements[4]].name = Name("Plain")

\* the document `z is l op r`, l and r literals
BinaryDoc(d) ==
    /\ Len(d) = 1
    /\ d[1].k = "is"
    /\ d[1].expr.k = "bin"
    /\ d[1].expr.left.k = "lit"
    /\ d[1].expr.right.k = "lit"

Left == doc[1].expr.left.value
Right == doc[1].expr.right.value

UnitOfEither == IF Left.unit # None THEN Left.unit ELSE Right.unit

\* C8: l + r and l - r fail exactly when l and r both carry a unit and the
\* units differ; otherwise the result carries the unit of the operand that
\* has one, none if neither has.
C8_AdditiveUnits ==
    BinaryDoc(doc) /\ doc[1].expr.op \in {"+", "-"} =>
        IF Left.unit # None /\ Right.unit # None /\ Left.unit # Right.unit
        THEN /\ status # "done"
             /\ status \in {"raising", "error"} =>
                    error = "Cannot add/subtract values with different units: '"
                            \o Left.unit \o "' and '" \o Right.unit \o "'"
        ELSE /\ status \notin {"raising", "error"}
             /\ status = "done" =>
                    variables["z"] =
                        Value(IF doc[1].expr.op = "+"
                              THEN RAdd(Left.number, Right.number)
                              ELSE RSub(Left.number, Right.number),
                              UnitOfEither)

\* 3 - 2cm is 1cm
C8_Witness ==
    /\ status = "done"
    /\ BinaryDoc(doc)
    /\ doc[1].expr.op = "-"
    /\ Left = Num(3) /\ Right = Value(RInt(2), "cm")
    /\ variables["z"] = Value(RInt(1), "cm")

----------------------------------------------------------------------------
(* Properties of the layout.                                               *)

\* the element just laid out names a reference that had no box
Dangling ==
    /\ hist.last.op = "layout"
    /\ hist.last.el.position # NoneV
    /\ Truthy(hist.last.el.position.reference)
    /\ StrText(hist.last.el.position.reference) \notin DOMAIN hist.last.before

AtContainerOrigin ==
    /\ ~hist.last.raised
    /\ hist.last.box.x = hist.last.container.x
    /\ hist.last.box.y = hist.last.container.y

\* at the anchor's fractions of the room the container leaves the element
AtContainerAnchor(anchor) ==
    /\ ~hist.last.raised
    /\ hist.last.box.x =
           RAdd(hist.last.container.x,
                RMul(Fractions(anchor)[1],
                     RSub(hist.last.container.width, hist.last.box.width)))
    /\ hist.last.box.y =
           RAdd(hist.last.container.y,
                RMul(Fractions(anchor)[2],
                     RSub(hist.last.container.height, hist.last.box.height)))

\* C10 as stated: an element whose position names a reference without box
\* is placed at its container's origin, whatever the form of the position.
C10_DanglingAtOrigin == Dangling => AtContainerOrigin

\* C10, amended: an element whose position names a reference without box
\* is laid out without error: at its container's origin if the position is
\* relative (below, above, left of, right of, inside, with or without an
\* anchor within the reference), and at the anchor within its container if
\* the position is an anchor in the reference.
C10_DanglingFallback ==
    Dangling =>
        IF TruthyName(hist.last.el.position.anchor)
        THEN AtContainerAnchor(hist.last.el.position.anchor)
        ELSE AtContainerOrigin

\* B, to be below the later Z, is at the origin of its group G, which is
\* not the canvas's
C10_Witness ==
    /\ Dangling
    /\ hist.last.key = "B"
    /\ hist.last.el.position.relative = "below"
    /\ hist.last.el.position.reference = Name("Z")
    /\ hist.last.box = ResolvedBox(RInt(200), RInt(125), RInt(20), RInt(10))

\* the element just laid out is positioned by one of the thirteen named
\* anchors, without reference
AnchoredInContainer ==
    /\ hist.last.op = "layout"
    /\ hist.last.el.position # NoneV
    /\ hist.last.el.position.x = NoneV /\ hist.last.el.position.y = NoneV
    /\ hist.last.el.position.relative = None
    /\ hist.last.el.position.reference = NoneV
    /\ hist.last.el.position.anchor \in
           {"center", "top", "bottom", "left", "right", "top left", "top right",
            "bottom left", "bottom right", "center left", "center right",
            "center top", "center bottom"}

\* the fraction pair of an anchor: 0 at the left and the top, 1 at the right
\* and the bottom, 0.5 on an axis the anchor does not name
HorizontalFraction(anchor) ==
    IF anchor \in {"left", "top left", "bottom left", "center left"} THEN RInt(0)
    ELSE IF anchor \in {"right", "top right", "bottom right", "center right"}
    THEN RInt(1)
    ELSE Rat(1, 2)

VerticalFraction(anchor) ==
    IF anchor \in {"top", "top left", "top right", "center top"} THEN RInt(0)
    ELSE IF anchor \in {"bottom", "bottom left", "bottom right", "center bottom"}
    THEN RInt(1)
    ELSE Rat(1, 2)

\* C12: an element of size (W, H) at a named anchor without reference, in a
\* container at (Cx, Cy) of size (Cw, Ch), gets the origin
\* (Cx + fx * (Cw - W), Cy + fy * (Ch - H)), (fx, fy) being the anchor's
\* fractions; at center that is ((Cw - W) / 2, (Ch - H) / 2) from the
\* container's origin.
C12_AnchorInContainer ==
    AnchoredInContainer =>
        /\ ~hist.last.raised
        /\ hist.last.box.x =
               RAdd(hist.last.container.x,
                    RMul(HorizontalFraction(hist.last.el.position.anchor),
                         RSub(hist.last.container.width, hist.last.box.width)))
        /\ hist.last.box.y =
               RAdd(hist.last.container.y,
                    RMul(VerticalFraction(hist.last.el.position.anchor),
                         RSub(hist.last.container.height, hist.last.box.height)))
        /\ hist.last.el.position.anchor = "center" =>
               /\ RSub(hist.last.box.x, hist.last.container.x) =
                      RDiv(RSub(hist.last.container.width, hist.last.box.width),
                           RInt(2))
               /\ RSub(hist.last.box.y, hist.last.container.y) =
                      RDiv(RSub(hist.last.container.height, hist.last.box.height),
                           RInt(2))

\* B, 20 by 10, at the right of its group G, which is 200 by 150 at
\* (200, 125)
C12_Witness ==
    /\ AnchoredInContainer
    /\ hist.last.key = "B"
    /\ hist.last.el.position.anchor = "right"
    /\ hist.last.container = ResolvedBox(RInt(200), RInt(125), RInt(200), RInt(150))
    /\ hist.last.box = ResolvedBox(RInt(380), RInt(195), RInt(20), RInt(10))

\* the element just laid out is placed below, above, left of or right of a
\* reference that has a box, with a gap in pixels or none
BesideReference ==
    /\ hist.last.op = "layout"
    /\ hist.last.el.position # NoneV
    /\ hist.last.el.position.x = NoneV /\ hist.last.el.position.y = NoneV
    /\ hist.last.el.position.relative \in {"below", "above", "left of", "right of"}
    /\ Truthy(hist.last.el.position.reference)
    /\ StrText(hist.last.el.position.reference) \in DOMAIN hist.last.before
    /\ hist.last.el.position.gap # NoneV =>
           hist.last.el.position.gap.unit \in {None, "px", "pixels"}

ReferenceBox == hist.last.before[StrText(hist.last.el.position.reference)]

GapOf(position) == IF position.gap = NoneV THEN RInt(0) ELSE position.gap.number

\* the centre of a box along each axis
CentreX(box) == RAdd(box.x, RDiv(box.width, RInt(2)))
CentreY(box) == RAdd(box.y, RDiv(box.height, RInt(2)))

\* C13: B placed below, above, left of or right of A, whose box is in the
\* box map, with gap g (0 if absent), is centred on A along the cross axis
\* and has its facing edge g away from A's along the main axis.
C13_RelativePlacement ==
    BesideReference =>
        /\ ~hist.last.raised
        /\ hist.last.el.position.relative = "below" =>
               /\ hist.last.box.y =
                      RAdd(RAdd(ReferenceBox.y, ReferenceBox.height),
                           GapOf(hist.last.el.position))
               /\ CentreX(hist.last.box) = CentreX(ReferenceBox)
        /\ hist.last.el.position.relative = "above" =>
               /\ RAdd(RAdd(hist.last.box.y, hist.last.box.height),
                       GapOf(hist.last.el.position)) = ReferenceBox.y
               /\ CentreX(hist.last.box) = CentreX(ReferenceBox)
        /\ hist.last.el.position.relative = "right of" =>
               /\ hist.last.box.x =
                      RAdd(RAdd(ReferenceBox.x, ReferenceBox.width),
                           GapOf(hist.last.el.position))
               /\ CentreY(hist.last.box) = CentreY(ReferenceBox)
        /\ hist.last.el.position.relative = "left of" =>
               /\ RAdd(RAdd(hist.last.box.x, hist.last.box.width),
                       GapOf(hist.last.el.position)) = ReferenceBox.x
               /\ CentreY(hist.last.box) = CentreY(ReferenceBox)

\* B, 20 by 10, left of A, which is 100 by 50 at (150, 75), with gap 5
C13_Witness ==
    /\ BesideReference
    /\ hist.last.key = "B"
    /\ hist.last.el.position.relative = "left of"
    /\ hist.last.el.position.reference = Name("A")
    /\ hist.last.el.position.gap = Px(5)
    /\ ReferenceBox = ResolvedBox(RInt(150), RInt(75), RInt(100), RInt(50))
    /\ hist.last.box = ResolvedBox(RInt(125), RInt(95), RInt(20), RInt(10))

\* the elements resolve_layout lays out, in tree pre-order: every element
\* but the canvases of the top level
RECURSIVE PreOrder(_)
PreOrder(elements) ==
    IF elements = <<>> THEN <<>>
    ELSE <<Head(elements)>> \o PreOrder(Head(elements).children)
         \o PreOrder(Tail(elements))

LaidOut == PreOrder(SelectSeq(Elements(doc), LAMBDA el : ~IsCanvas(el)))

\* the generated keys the box map held before the step
GeneratedBefore ==
    {key \in DOMAIN hist.last.before :
        \E k \in 0..counter : key = "__element_" \o ToString(k)}

\* a named element is keyed by its name, a canvas without name __canvas
NamedKeys ==
    /\ hist.last.op = "layout" /\ Truthy(hist.last.el.name) =>
           hist.last.key = StrText(hist.last.el.name)
    /\ hist.last.op = "layout" /\ ~hist.last.raised =>
           hist.last.key \in DOMAIN boxes
    /\ status \in {"laying", "laid"} /\ HasCanvas(doc) =>
           IF Truthy(canvas(doc).name)
           THEN StrText(canvas(doc).name) \in DOMAIN boxes
           ELSE "__canvas" \in DOMAIN boxes

\* C14 as stated: the k-th unnamed element, counting the unnamed elements
\* only, is keyed __element_k.
C14_KeyAmongUnnamed ==
    /\ NamedKeys
    /\ hist.last.op = "layout" /\ ~Truthy(hist.last.el.name) =>
           hist.last.key = "__element_" \o ToString(Cardinality(GeneratedBefore))

\* C14, amended: a named element is keyed by its name and a canvas without
\* name __canvas; an element without name is keyed __element_k, k being its
\* index from 0 in the tree pre-order of all the elements laid out, the
\* named ones counted too.
C14_KeyInPreOrder ==
    /\ NamedKeys
    /\ hist.last.op = "layout" /\ ~Truthy(hist.last.el.name) =>
           \E k \in DOMAIN LaidOut :
               /\ LaidOut[k] = hist.last.el
               /\ \A j \in DOMAIN LaidOut : LaidOut[j] = hist.last.el => j = k
               /\ hist.last.key = "__element_" \o ToString(k - 1)

\* the circle without name, sixth of the elements and third of those
\* without name, is keyed __element_5
C14_Witness ==
    /\ hist.last.op = "layout"
    /\ hist.last.el.element_type = "circle"
    /\ ~Truthy(hist.last.el.name)
    /\ Len(LaidOut) = 7
    /\ LaidOut[6] = hist.last.el
    /\ ~Truthy(LaidOut[1].name)
    /\ Cardinality(GeneratedBefore) = 3
    /\ hist.last.key = "__element_5"
    /\ "__canvas" \in DOMAIN boxes

\* a loop whose bounds and step, if written, are unitless literals, reached
\* below the nesting ceiling and with a count below the iteration ceiling
Validated(stmt) ==
    /\ stmt.start.k = "lit" /\ stmt.start.value.unit = None
    /\ stmt.end.k = "lit" /\ stmt.end.value.unit = None
    /\ stmt.step # NoneV => stmt.step.k = "lit" /\ stmt.step.value.unit = None
    /\ ForDepth < _MAX_LOOP_DEPTH

StartOf(stmt) == stmt.start.value.number
EndOf(stmt) == stmt.end.value.number
WrittenStep(stmt) ==
    IF stmt.step # NoneV THEN stmt.step.value.number
    ELSE DefaultStep(StartOf(stmt), EndOf(stmt))

Mismatched(stmt) ==
    \/ WrittenStep(stmt).n = 0
    \/ WrittenStep(stmt).n > 0 /\ RLt(EndOf(stmt), StartOf(stmt))
    \/ WrittenStep(stmt).n < 0 /\ RLt(StartOf(stmt), EndOf(stmt))

WithinCeiling(stmt) ==
    Mismatched(stmt) \/
    CountIterations(StartOf(stmt), EndOf(stmt), WrittenStep(stmt)) <= _MAX_LOOP_ITERATIONS

C18_Step ==
    AtStatement /\ Cur.k = "for" /\ Validated(Cur) /\ WithinCeiling(Cur) =>
        /\ status' = "raising" <=> Mismatched(Cur)
        /\ WrittenStep(Cur).n = 0 => error' = "For loop step cannot be zero"
        /\ StartOf(Cur) = EndOf(Cur) /\ WrittenStep(Cur).n # 0 =>
               /\ status' = "running"
               /\ stack'[Len(stack')].k = "for"

\* the loops from a to a that have finished
SingleValueLoop ==
    /\ hist.last.op = "for_exit"
    /\ hist.last.start_n = hist.last.end_n

\* C18: a for loop with unitless bounds raises for its step exactly when the
\* step is zero, or positive with end < start, or negative with end > start;
\* with start = end every nonzero step is accepted and the loop runs once.
C18_StepValidation ==
    /\ [][C18_Step]_vars
    /\ [](SingleValueLoop => hist.last.iters = 1)

\* the part of C18 that holds: the step validation
C18_Validation == [][C18_Step]_vars

\* the elements a placement places: the copy of the template's element, or
\* the copies of its elements in the group made around them
PlacedElements(h, out, template) ==
    IF Len(template.body_elements) = 1 THEN {out[1]}
    ELSE {h[out[1]].children[i] : i \in DOMAIN h[out[1]].children}

Dimensions == {"width", "height", "radius"}

Times(v, factor) ==
    IF v = NoneV THEN NoneV ELSE Value(RMul(v.number, factor), v.unit)

\* the same placement without its scale
Unscaled(stmt) == _handle_place(heap, variables, color_vars, templates,
                                [stmt EXCEPT !.scale = NoneV])

ScaledPlacement ==
    /\ AtStatement
    /\ Cur.k = "place"
    /\ Cur.scale # NoneV
    /\ status' = "running"

C20_Step ==
    ScaledPlacement =>
        \A a \in PlacedElements(heap', hist'.last.out, templates[Cur.template_name]) :
            \A f \in Dimensions :
                heap'[a][f] =
                    Times(Unscaled(Cur).h[a][f],
                          _eval_expr(variables, Cur.scale).val.number)

\* C20: a placement with scale s gives every element it places the width,
\* height and radius of the same placement without scale, times s, however
\* the template writes them.
C20_ScaleUniform == [][C20_Step]_vars

\* the dimensions the template, or a width or height override, gives as a
\* Value are scaled
C20_LiteralStep ==
    ScaledPlacement =>
        \A a \in PlacedElements(heap', hist'.last.out, templates[Cur.template_name]) :
            \A f \in Dimensions :
                \/ heap'[a][f] =
                       Times(Unscaled(Cur).h[a][f],
                             _eval_expr(variables, Cur.scale).val.number)
                \/ \E i \in DOMAIN templates[Cur.template_name].body_elements :
                       ~IsValue(heap[templates[Cur.template_name].body_elements[i]][f])

ScaleOfLiterals == [][C20_LiteralStep]_vars

----------------------------------------------------------------------------
(* Value.to_pixels called on its own, as the unit tests call it.           *)

MaxNumber == 3      \* numbers range over 25 * (-1..MaxNumber)
MaxContainer == 2   \* container sizes over 400 * (0..MaxContainer), or none

PixelUnits ==
    {None, "px", "pixels", "%", "half", "third", "tiny", "cm", "in", "lightyears"}

\* nothing is being resolved or laid out
NoResolve ==
    /\ doc = <<>>
    /\ heap = <<>>
    /\ stack = <<>>
    /\ variables = EmptyDict
    /\ color_vars = EmptyDict
    /\ templates = EmptyDict
    /\ _loop_depth = 0
    /\ resolved_elements = <<>>
    /\ status = "idle"
    /\ error = ""
    /\ boxes = EmptyDict
    /\ counter = 0
    /\ hist = [last |-> [op |-> "init"], placed |-> <<>>, defined |-> EmptyDict,
               iterated |-> 0, laid |-> <<>>,
               first |-> [resolved |-> FALSE, out |-> <<>>]]

UnitsInit ==
    /\ NoResolve
    /\ NoConvert
    /\ NoPair
    /\ NoWide
    /\ px_value \in { Value(RInt(25 * k), u) : k \in -1..MaxNumber, u \in PixelUnits }
    /\ px_container \in {NoneV} \cup { RInt(400 * k) : k \in 0..MaxContainer }
    /\ pixels = NoneV

\* v.to_pixels() or v.to_pixels(container_size)
to_pixels_call ==
    /\ px_value # NoneV
    /\ pixels = NoneV
    /\ pixels' = to_pixels(px_value, px_container)
    /\ UNCHANGED <<doc, heap, variables, color_vars, templates, _loop_depth, stack,
                   resolved_elements, status, error, boxes, counter, hist,
                   skip_lint, diagnostics, svg, suspended, px_value, px_container,
                   wide>>

UnitsNext == to_pixels_call

UnitsSpec == UnitsInit /\ [][UnitsNext]_vars

\* the units resolved against the container
Fractional(unit) ==
    unit \in {"%", "tiny", "small", "medium", "large", "huge", "full", "half",
              "third", "quarter"}

\* C19: to_pixels on a percent or natural-fraction Value raises exactly when
\* no container size is given (a size of 0 is one); a percent Value with size
\* c gives number / 100 * c; a Value without unit or in px or pixels gives
\* its number, container size or not.
C19_ToPixels ==
    pixels # NoneV =>
        /\ Fractional(px_value.unit) => (~pixels.ok <=> px_container = NoneV)
        /\ px_value.unit = "%" /\ px_container # NoneV =>
               pixels = Ok(RDiv(RMul(px_value.number, px_container), RInt(100)))
        /\ px_value.unit \in {None, "px", "pixels"} => pixels = Ok(px_value.number)

\* 50% of 800 is 400
C19_Witness ==
    /\ px_value = Value(RInt(50), "%")
    /\ px_container = RInt(800)
    /\ pixels = Ok(RInt(400))

----------------------------------------------------------------------------
(* linter: the four rule sets on a resolved document.  Diagnostic.line and *)
(* column are not modelled: the elements of the model carry no line.       *)

Diagnostic(severity, message, rule) ==
    [severity |-> severity, message |-> message, rule |-> rule]

\* el.name or default
NameOr(el, default) == IF Truthy(el.name) THEN StrText(el.name) ELSE default

\* structure._collect_names: [names, diagnostics] after the elements from
\* the i-th on, in tree pre-order
RECURSIVE _collect_names(_, _, _)
_collect_names(elements, i, acc) ==
    IF i > Len(elements) THEN acc
    ELSE _collect_names(
             elements, i + 1,
             _collect_names(
                 elements[i].children, 1,
                 IF ~Truthy(elements[i].name) THEN acc
                 ELSE IF StrText(elements[i].name) \in acc.names THEN
                     [acc EXCEPT !.diagnostics = Append(@,
                         Diagnostic("error",
                                    "Duplicate element name: \"" \o StrText(elements[i].name)
                                        \o "\"",
                                    "structure"))]
                 ELSE [acc EXCEPT !.names = @ \cup {StrText(elements[i].name)}]))

Canvases(d) == SelectSeq(Elements(d), IsCanvas)

\* the dash of the two canvas messages is an em dash in the source

check_structure(d) ==
    IF Elements(d) = <<>> THEN
        <<Diagnostic("error", "Document has no elements", "structure")>>
    ELSE
        (IF Len(Canvases(d)) = 0 THEN
             <<Diagnostic("warning", "No canvas element - default size will be used",
                          "structure")>>
         ELSE IF Len(Canvases(d)) > 1 THEN
             <<Diagnostic("error", "Multiple canvas elements found - only one is allowed",
                          "structure")>>
         ELSE <<>>)
        \o (IF Canvases(d) # <<>> /\ ~IsCanvas(Elements(d)[1])
            THEN <<Diagnostic("warning", "Canvas should be the first element",
                              "structure")>>
            ELSE <<>>)
        \o _collect_names(Elements(d), 1, [names |-> {}, diagnostics |-> <<>>]).diagnostics

\* references._collect_all_names: the names of all the elements of the tree
RECURSIVE _collect_all_names(_)
_collect_all_names(elements) ==
    IF elements = <<>> THEN {}
    ELSE (IF Truthy(Head(elements).name) THEN {StrText(Head(elements).name)} ELSE {})
         \cup _collect_all_names(Head(elements).children)
         \cup _collect_all_names(Tail(elements))

HasReference(el) == el.position # NoneV /\ Truthy(el.position.reference)

RECURSIVE _check_element_refs(_, _)
_check_element_refs(elements, names) ==
    IF elements = <<>> THEN <<>>
    ELSE (IF HasReference(Head(elements))
             /\ StrText(Head(elements).position.reference) \notin names
          THEN <<Diagnostic("error",
                            "Referenced element \""
                                \o StrText(Head(elements).position.reference)
                                \o "\" not found",
                            "references")>>
          ELSE <<>>)
         \o _check_element_refs(Head(elements).children, names)
         \o _check_element_refs(Tail(elements), names)

check_references_top_level(d) ==
    _check_element_refs(
        Elements(d),
        {StrText(Elements(d)[i].name) :
            i \in {j \in DOMAIN Elements(d) : Truthy(Elements(d)[j].name)}})

check_references(d) ==
    _check_element_refs(Elements(d), _collect_all_names(Elements(d)))

\* color.startswith("#") or color.startswith("rgb") or color == "none", on
\* the strings resolve_color is modelled on
Passthrough(s) ==
    s \in {"#FF0000", "#0000FF", "#FFFFFF", "#ff0000", "#007AFF", "#007aff",
           "#ZZZZZZ", "none"}

_validate_color(color, prop_name) ==
    IF color = NoneV THEN <<>>
    ELSE IF Passthrough(color.s) THEN <<>>
    ELSE IF resolve_color(color.s) = None THEN
        <<Diagnostic("error", "Unknown color \"" \o color.s \o "\" in " \o prop_name,
                     "colors")>>
    ELSE <<>>

RECURSIVE _check_element_colors(_)
_check_element_colors(elements) ==
    IF elements = <<>> THEN <<>>
    ELSE _validate_color(Head(elements).fill, "fill")
         \o _validate_color(Head(elements).background, "background")
         \o (IF Head(elements).stroke # NoneV
             THEN _validate_color(Head(elements).stroke.color, "stroke color")
             ELSE <<>>)
         \o (IF Head(elements).text_style # NoneV
             THEN _validate_color(Head(elements).text_style.color, "text color")
             ELSE <<>>)
         \o _check_element_colors(Head(elements).children)
         \o _check_element_colors(Tail(elements))

check_colors(d) == _check_element_colors(Elements(d))

\* style._check_elements, the checks of one element
StyleOf(el) ==
    (IF IsCanvas(el) /\ (el.width = NoneV \/ el.height = NoneV)
     THEN <<Diagnostic("warning", "Canvas should have explicit width and height",
                       "style")>>
     ELSE <<>>)
    \o (IF el.element_type \in {"rectangle", "rect"}
           /\ el.width = NoneV /\ el.height = NoneV
        THEN <<Diagnostic("warning",
                          "Element \"" \o NameOr(el, el.element_type)
                              \o "\" has no dimensions",
                          "style")>>
        ELSE <<>>)
    \o (IF el.element_type = "circle" /\ el.radius = NoneV
        THEN <<Diagnostic("warning",
                          "Circle \"" \o NameOr(el, "unnamed") \o "\" has no radius",
                          "style")>>
        ELSE <<>>)
    \o (IF el.element_type = "text"
           /\ (el.text_style = NoneV \/ el.text_style.size = NoneV)
        THEN <<Diagnostic("info",
                          "Text \"" \o NameOr(el, "unnamed") \o "\" has no explicit size",
                          "style")>>
        ELSE <<>>)

RECURSIVE _check_elements(_)
_check_elements(elements) ==
    IF elements = <<>> THEN <<>>
    ELSE StyleOf(Head(elements))
         \o _check_elements(Head(elements).children)
         \o _check_elements(Tail(elements))

check_style(d) == _check_elements(Elements(d))

\* list.sort by severity_order, which is stable
Sorted(ds) ==
    SelectSeq(ds, LAMBDA x : x.severity = "error")
    \o SelectSeq(ds, LAMBDA x : x.severity = "warning")
    \o SelectSeq(ds, LAMBDA x : x.severity = "info")

lint(d) ==
    Sorted(check_structure(d) \o check_references(d) \o check_colors(d)
           \o check_style(d))

has_errors(ds) == \E i \in DOMAIN ds : ds[i].severity = "error"

----------------------------------------------------------------------------
(* converter: the SVG tree.  An XmlElement is [tag, attrib, text,          *)
(* children]; attrib is the dict in insertion order, a sequence of         *)
(* [key, val].  Gradients (no element of the model has one) and the debug  *)
(* overlays (debug is None) are left out, and so are the shapes ellipse,   *)
(* line, path, polygon and image, which no document of the model uses.     *)

XmlElement(tag, attrib, text, children) ==
    [tag |-> tag, attrib |-> attrib, text |-> text, children |-> children]

\* attrs[key] = val
Set(attrs, key, val) ==
    IF \E i \in DOMAIN attrs : attrs[i].key = key
    THEN [i \in DOMAIN attrs |->
             IF attrs[i].key = key THEN [key |-> key, val |-> val] ELSE attrs[i]]
    ELSE Append(attrs, [key |-> key, val |-> val])

\* attrs.update(more)
RECURSIVE Update(_, _)
Update(attrs, more) ==
    IF more = <<>> THEN attrs
    ELSE Update(Set(attrs, Head(more).key, Head(more).val), Tail(more))

HasKey(attrs, key) == \E i \in DOMAIN attrs : attrs[i].key = key

Without(attrs, key) == SelectSeq(attrs, LAMBDA a : a.key # key)

\* str(x) of a float
PyStr(r) == IF r.d = 1 THEN ToString(r.n) \o ".0" ELSE FormatFloat(r)

TwoDigits(i) == IF i < 10 THEN "0" \o ToString(i) ELSE ToString(i)

\* f"{n:.2f}": the hundredths nearest to n, a tie going to the even one
Hundredths(r) ==
    ((Abs(r.n) * 100) \div r.d)
    + (IF 2 * ((Abs(r.n) * 100) % r.d) > r.d
          \/ (2 * ((Abs(r.n) * 100) % r.d) = r.d
              /\ ((Abs(r.n) * 100) \div r.d) % 2 = 1)
       THEN 1 ELSE 0)

\* shapes._fmt
_fmt(r) ==
    IF r.d = 1 THEN ToString(r.n)
    ELSE (IF r.n < 0 THEN "-" ELSE "") \o ToString(Hundredths(r) \div 100) \o "."
         \o TwoDigits(Hundredths(r) % 100)

\* a colour string that is neither None nor empty
TruthyColor(color) == color # NoneV /\ color.s # ""

\* styles._apply_stroke; width is stroke.width.to_pixels()
StrokeAttrs(stroke, attrs, width) ==
    IF ~width.ok THEN width
    ELSE Ok(LET a1 == IF TruthyColor(stroke.color)
                      THEN Set(attrs, "stroke", stroke.color.s) ELSE attrs
                a2 == IF stroke.width # NoneV
                      THEN Set(a1, "stroke-width", PyStr(width.val)) ELSE a1
            IN  IF stroke.dash = "dashed" THEN Set(a2, "stroke-dasharray", "8,4")
                ELSE IF stroke.dash = "dotted" THEN Set(a2, "stroke-dasharray", "2,2")
                ELSE a2)

_apply_stroke(stroke, attrs) ==
    StrokeAttrs(stroke, attrs,
                IF stroke.width # NoneV THEN to_pixels(stroke.width, NoneV)
                ELSE Ok(RInt(0)))

build_style_attrs(el) ==
    LET a1 == IF TruthyColor(el.fill) THEN <<[key |-> "fill", val |-> el.fill.s]>>
              ELSE <<>>
        a2 == IF el.opacity # NoneV THEN Set(a1, "opacity", PyStr(el.opacity.number))
              ELSE a1
    IN  IF el.stroke # NoneV THEN _apply_stroke(el.stroke, a2) ELSE Ok(a2)

\* styles.build_text_attrs; font, weight, style and align are None
TextAttrs(style, size) ==
    IF ~size.ok THEN size
    ELSE Ok(LET a1 == IF style.size # NoneV
                      THEN <<[key |-> "font-size", val |-> PyStr(size.val)]>>
                      ELSE <<>>
            IN  IF TruthyColor(style.color) THEN Set(a1, "fill", style.color.s)
                ELSE a1)

build_text_attrs(style) ==
    IF style = NoneV THEN Ok(<<>>)
    ELSE TextAttrs(style, IF style.size # NoneV THEN to_pixels(style.size, NoneV)
                          ELSE Ok(RInt(0)))

\* el.rotate, a float once resolved, when it is neither None nor 0
Rotated(el) == el.rotate # NoneV /\ el.rotate.number.n # 0

Transform(el, box) ==
    "rotate(" \o PyStr(el.rotate.number) \o ","
    \o _fmt(RAdd(box.x, RDiv(box.width, RInt(2)))) \o ","
    \o _fmt(RAdd(box.y, RDiv(box.height, RInt(2)))) \o ")"

\* attrs.update(build_style_attrs(el)), then the rotate transform
Styled(tag, el, box, attrs, style, with_transform) ==
    IF ~attrs.ok THEN attrs
    ELSE IF ~style.ok THEN style
    ELSE Ok(XmlElement(tag,
                       IF with_transform /\ Rotated(el)
                       THEN Set(Update(attrs.val, style.val), "transform",
                                Transform(el, box))
                       ELSE Update(attrs.val, style.val),
                       "", <<>>))

\* lines 38-47: x, y, width, height, then rx and ry from el.rounded
RectAttrs(el, box, rounded) ==
    IF ~rounded.ok THEN rounded
    ELSE Ok(LET a == << [key |-> "x", val |-> _fmt(box.x)],
                        [key |-> "y", val |-> _fmt(box.y)],
                        [key |-> "width", val |-> _fmt(box.width)],
                        [key |-> "height", val |-> _fmt(box.height)] >>
            IN  IF el.rounded # NoneV
                THEN a \o << [key |-> "rx", val |-> _fmt(rounded.val)],
                             [key |-> "ry", val |-> _fmt(rounded.val)] >>
                ELSE a)

_render_rect(el, box) ==
    Styled("rect", el, box,
           RectAttrs(el, box, IF el.rounded # NoneV THEN to_pixels(el.rounded, NoneV)
                              ELSE Ok(RInt(0))),
           build_style_attrs(el), TRUE)

_render_circle(el, box) ==
    Styled("circle", el, box,
           Ok(<< [key |-> "cx", val |-> _fmt(RAdd(box.x, RDiv(box.width, RInt(2))))],
                 [key |-> "cy", val |-> _fmt(RAdd(box.y, RDiv(box.width, RInt(2))))],
                 [key |-> "r", val |-> _fmt(RDiv(box.width, RInt(2)))] >>),
           build_style_attrs(el), FALSE)

\* the transform is set before the style here: the order of the attributes
_render_group(el, box) ==
    Styled("g", el, box,
           Ok(IF Rotated(el) THEN <<[key |-> "transform", val |-> Transform(el, box)]>>
              ELSE <<>>),
           build_style_attrs(el), FALSE)

\* line 144 reads box.rotation, and ResolvedBox (layout.py:10-17) has x, y,
\* width and height only: an AttributeError, before anything is built
_render_gear(el, box) ==
    Raise("AttributeError: 'ResolvedBox' object has no attribute 'rotation'")

render_shape(el, box) ==
    IF el.element_type \in {"rect", "rectangle"} THEN _render_rect(el, box)
    ELSE IF el.element_type = "circle" THEN _render_circle(el, box)
    ELSE IF el.element_type = "gear" THEN _render_gear(el, box)
    ELSE _render_group(el, box)

\* lines 28-35 of text.py: the style's fill gives way to the text colour
TextNode(el, attrs, text_attrs, style_attrs) ==
    IF ~text_attrs.ok THEN text_attrs
    ELSE IF ~style_attrs.ok THEN style_attrs
    ELSE Ok(XmlElement("text",
                       Update(Update(attrs, text_attrs.val),
                              IF HasKey(style_attrs.val, "fill")
                                 /\ HasKey(Update(attrs, text_attrs.val), "fill")
                              THEN Without(style_attrs.val, "fill")
                              ELSE style_attrs.val),
                       NameOr(el, ""), <<>>))

render_text(el, box) ==
    TextNode(el,
             << [key |-> "x", val |-> _fmt(RAdd(box.x, RDiv(box.width, RInt(2))))],
                [key |-> "y", val |-> _fmt(RAdd(box.y, RDiv(box.height, RInt(2))))],
                [key |-> "text-anchor", val |-> "middle"],
                [key |-> "dominant-baseline", val |-> "central"] >>,
             build_text_attrs(el.text_style), build_style_attrs(el))

\* the generated keys of the box map; they were inserted in this order
Generated(bxs, n) == {k \in 0..n : ("__element_" \o ToString(k)) \in DOMAIN bxs}

Least(ks) == CHOOSE k \in ks : \A j \in ks : k <= j

\* svg_builder._find_key: the first generated key of the map, whatever the
\* element
_find_key(bxs, n) ==
    IF Generated(bxs, n) # {} THEN "__element_" \o ToString(Least(Generated(bxs, n)))
    ELSE "__element_0"

\* lines 107-108
KeyOf(el, bxs, n) == IF Truthy(el.name) THEN StrText(el.name) ELSE _find_key(bxs, n)

BoxOf(el, bxs, n) ==
    IF KeyOf(el, bxs, n) \in DOMAIN bxs THEN bxs[KeyOf(el, bxs, n)]
    ELSE ResolvedBox(RInt(0), RInt(0), RInt(0), RInt(0))

\* the XmlElement with the children rendered into it, or the first raise
WithChildren(node, rendered) ==
    IF ~node.ok THEN node
    ELSE IF ~rendered.ok THEN rendered
    ELSE Ok([node.val EXCEPT !.children = rendered.val])

\* svg_builder._all_elements: the tree flattened in pre-order
RECURSIVE _all_elements(_)
_all_elements(elements) ==
    IF elements = <<>> THEN <<>>
    ELSE <<Head(elements)>> \o _all_elements(Head(elements).children)
         \o _all_elements(Tail(elements))

\* line 68: el.gradient and el.name
Registered(el) == el.gradient # NoneV /\ Truthy(el.name)

\* lines 73-85
LinearGradient(grad_id, gradient) ==
    XmlElement("linearGradient",
               << [key |-> "id", val |-> grad_id],
                  [key |-> "x1", val |-> "0%"], [key |-> "y1", val |-> "0%"],
                  [key |-> "x2", val |-> "0%"], [key |-> "y2", val |-> "100%"] >>,
               "",
               << XmlElement("stop", << [key |-> "offset", val |-> "0%"],
                                        [key |-> "stop-color", val |-> gradient.color1] >>,
                             "", <<>>),
                  XmlElement("stop", << [key |-> "offset", val |-> "100%"],
                                        [key |-> "stop-color", val |-> gradient.color2] >>,
                             "", <<>>) >>)

\* the loop of lines 67-86 from the i-th element on; acc is
\* [defs, gradient_map, counter]
RECURSIVE GradientsFrom(_, _, _)
GradientsFrom(els, i, acc) ==
    IF i > Len(els) THEN acc
    ELSE IF Registered(els[i])
    THEN GradientsFrom(els, i + 1,
             [defs |-> Append(acc.defs,
                              LinearGradient("grad_" \o ToString(acc.counter),
                                             els[i].gradient)),
              gradient_map |-> DictSet(acc.gradient_map, StrText(els[i].name),
                                       "url(#grad_" \o ToString(acc.counter) \o ")"),
              counter |-> acc.counter + 1])
    ELSE GradientsFrom(els, i + 1, acc)

\* svg_builder._create_gradient_defs: the linearGradient nodes of <defs>
\* and the gradient map
_create_gradient_defs(d) ==
    GradientsFrom(_all_elements(Elements(d)), 1,
                  [defs |-> <<>>, gradient_map |-> EmptyDict, counter |-> 0])

\* lines 117-118
Filled(node, key, gradient_map) ==
    IF node.ok /\ key \in DOMAIN gradient_map
    THEN Ok([node.val EXCEPT !.attrib = Set(@, "fill", gradient_map[key])])
    ELSE node

\* _render_element over a list: the XmlElements, or the first raise
RECURSIVE RenderAll(_, _, _, _)
_render_element(el, bxs, n, gradient_map) ==
    IF el.element_type = "text" THEN render_text(el, BoxOf(el, bxs, n))
    ELSE WithChildren(Filled(render_shape(el, BoxOf(el, bxs, n)),
                             KeyOf(el, bxs, n), gradient_map),
                      RenderAll(el.children, bxs, n, gradient_map))

Then(first, rest) ==
    IF ~first.ok THEN first
    ELSE IF ~rest.ok THEN rest
    ELSE Ok(<<first.val>> \o rest.val)

RenderAll(elements, bxs, n, gradient_map) ==
    IF elements = <<>> THEN Ok(<<>>)
    ELSE Then(_render_element(Head(elements), bxs, n, gradient_map),
              RenderAll(Tail(elements), bxs, n, gradient_map))

\* ElementTree.tostring(svg, encoding="unicode")
RECURSIVE Attributes(_)
Attributes(attrs) ==
    IF attrs = <<>> THEN ""
    ELSE " " \o Head(attrs).key \o "=\"" \o Head(attrs).val \o "\""
         \o Attributes(Tail(attrs))

RECURSIVE tostring(_)
RECURSIVE tostring_all(_)
tostring(node) ==
    IF node.text = "" /\ node.children = <<>>
    THEN "<" \o node.tag \o Attributes(node.attrib) \o " />"
    ELSE "<" \o node.tag \o Attributes(node.attrib) \o ">" \o node.text
         \o tostring_all(node.children) \o "</" \o node.tag \o ">"

tostring_all(nodes) ==
    IF nodes = <<>> THEN ""
    ELSE tostring(Head(nodes)) \o tostring_all(Tail(nodes))

\* lines 24-29
Root(canvas_w, canvas_h) ==
    << [key |-> "xmlns", val |-> "http://www.w3.org/2000/svg"],
       [key |-> "width", val |-> ToString(RTrunc(canvas_w))],
       [key |-> "height", val |-> ToString(RTrunc(canvas_h))],
       [key |-> "viewBox", val |-> "0 0 " \o ToString(RTrunc(canvas_w)) \o " "
                                   \o ToString(RTrunc(canvas_h))],
       [key |-> "font-family", val |-> "Roboto, sans-serif"] >>

\* lines 35-40
Background(d) ==
    IF HasCanvas(d) /\ TruthyColor(canvas(d).background)
    THEN <<XmlElement("rect", << [key |-> "width", val |-> "100%"],
                                 [key |-> "height", val |-> "100%"],
                                 [key |-> "fill", val |-> canvas(d).background.s] >>,
                      "", <<>>)>>
    ELSE <<>>

\* lines 69-70: <defs> is there once a gradient is registered
Defs(defs) == IF defs = <<>> THEN <<>> ELSE <<XmlElement("defs", <<>>, "", defs)>>

\* lines 19-56, after resolve_layout: the markup, or the raise
Markup(d, canvas_w, canvas_h, defs, rendered) ==
    IF ~canvas_w.ok THEN canvas_w
    ELSE IF ~canvas_h.ok THEN canvas_h
    ELSE IF ~rendered.ok THEN rendered
    ELSE Ok("<?xml version=\"1.0\" encoding=\"UTF-8\"?>\n"
            \o tostring(XmlElement("svg", Root(canvas_w.val, canvas_h.val), "",
                                   Defs(defs) \o Background(d) \o rendered.val)))

----------------------------------------------------------------------------
(* converter.convert(source, skip_lint): resolve, lint, then build_svg,    *)
(* which lays out and renders.  The parser is not modelled: a run starts   *)
(* from the parsed document.                                               *)

\* Diagnostic.__str__, line being None
DiagnosticStr(d) == d.severity \o " [" \o d.rule \o "]: " \o d.message

RECURSIVE JoinLines(_)
JoinLines(ds) ==
    IF ds = <<>> THEN ""
    ELSE IF Len(ds) = 1 THEN DiagnosticStr(ds[1])
    ELSE DiagnosticStr(Head(ds)) \o "\n" \o JoinLines(Tail(ds))

\* Document(statements=list(resolved_elements)), line 49 of the resolver
Resolved == [i \in DOMAIN resolved_elements |-> ElTree(heap, resolved_elements[i])]

Blocked_always(ds, skip) == has_errors(ds)

\* line 27
Blocked(ds, skip) == has_errors(ds) /\ ~skip

\* lines 25-30
Linted(d, ds) ==
    /\ doc' = d
    /\ diagnostics' = ds
    /\ IF Blocked(ds, skip_lint)
       THEN /\ status' = "error"
            /\ error' = "Lint errors found:\n" \o JoinLines(ds)
       ELSE /\ status' = "layout"
            /\ error' = error

\* convert from the return of resolve to the call of build_svg
convert_lint ==
    /\ status = "done"
    /\ Linted(Resolved, lint(Resolved))
    /\ hist' = [hist EXCEPT !.last = [op |-> "lint"]]
    /\ UNCHANGED <<heap, variables, color_vars, templates, _loop_depth, stack,
                   resolved_elements, boxes, counter, skip_lint, svg, suspended,
                   px_value, px_container, pixels, wide>>

\* defs and rendered are kept in the history: the nodes of the markup
Built(markup, defs, rendered) ==
    /\ IF markup.ok
       THEN /\ svg' = markup.val
            /\ status' = "converted"
            /\ error' = error
       ELSE /\ svg' = svg
            /\ status' = "error"
            /\ error' = markup.err
    /\ hist' = [hist EXCEPT !.last = [op |-> "build_svg", defs |-> defs,
                                      rendered |-> rendered]]

\* lines 32-46: the gradient definitions, then the elements rendered
Emission(d, bxs, n, gradients) ==
    Built(Markup(d, CanvasSide(d, "width", DEFAULT_CANVAS_W),
                 CanvasSide(d, "height", DEFAULT_CANVAS_H),
                 gradients.defs,
                 RenderAll(SelectSeq(Elements(d), LAMBDA el : ~IsCanvas(el)),
                           bxs, n, gradients.gradient_map)),
          gradients.defs,
          RenderAll(SelectSeq(Elements(d), LAMBDA el : ~IsCanvas(el)),
                    bxs, n, gradients.gradient_map))

\* build_svg from the return of resolve_layout (lines 19-56), and convert's
\* return
build_svg ==
    /\ status = "laid"
    /\ Emission(doc, boxes, counter, _create_gradient_defs(doc))
    /\ UNCHANGED <<doc, heap, variables, color_vars, templates, _loop_depth, stack,
                   resolved_elements, boxes, counter, skip_lint, diagnostics,
                   suspended, px_value, px_container, pixels, wide>>

\* the documents converted
Card ==
    [Rect(Str(<<Lit("Card_"), Ph("i")>>), VarRefExpr("w"), Num(20)) EXCEPT
        !.fill = ColorRef("primary"),
        !.stroke = StrokeStyle(Color("blue"), L(2), "dashed"),
        !.opacity = L(1), !.rotate = L(45), !.rounded = Num(2)]

Label(name, size) ==
    [Element("text", name) EXCEPT !.text_style = TextStyle(size, Color("red"))]

Gear(name) == [Element("gear", name) EXCEPT !.radius = Num(30)]

Shaded(el, color1, color2) == [el EXCEPT !.gradient = GradientFill(color1, color2)]

Pages ==
    { <<>>,
      <<[Canvas EXCEPT !.background = Color("white")]>>,
      <<[Canvas EXCEPT !.width = NoneV]>>,
      <<[Canvas EXCEPT !.width = Value(RInt(50), "%")]>> }

Bodies ==
    { <<>>,
      \* B refers to C, declared after it
      << Rect(Name("A"), Num(100), Num(50)),
         [Rect(Name("B"), Num(20), Num(10)) EXCEPT !.position = Below(Name("C"))],
         Rect(Name("C"), Num(40), Num(40)) >>,
      \* B refers to an element that is nowhere
      << Rect(Name("A"), Num(100), Num(50)),
         [Rect(Name("B"), Num(20), Num(10)) EXCEPT
             !.position = Anchor("center", Name("Nowhere"))] >>,
      \* B refers to itself, C to A declared before it
      << [Rect(Name("A"), Num(100), Num(50)) EXCEPT !.position = At(Num(10), Num(20))],
         [Rect(Name("B"), Num(20), Num(10)) EXCEPT !.position = Below(Name("B"))],
         [Rect(Name("C"), Num(20), Num(10)) EXCEPT !.position = Below(Name("A"))] >>,
      \* B refers to D inside the group it is declared before
      << [Rect(Name("B"), Num(20), Num(10)) EXCEPT
             !.position = Anchor("top left", Name("D"))],
         [Element("group", Name("G")) EXCEPT
             !.width = Num(200), !.height = Num(100),
             !.children = <<Rect(Name("D"), Num(5), Num(5))>>] >>,
      << Gear(Name("G1")) >>,
      << Rect(Name("A"), Num(100), Num(50)), Gear(NoneV) >>,
      << [Rect(Name("A"), Num(100), Num(50)) EXCEPT !.rounded = Value(RInt(10), "%")] >>,
      << Label(Name("Title"), Num(12)), Label(Name("Note"), NoneV) >>,
      << Label(Name("Title"), Value(RInt(1), "half")) >>,
      << [Rect(Name("A"), Num(100), Num(50)) EXCEPT !.fill = Color("unicorn")] >>,
      << Rect(Name("A"), Num(100), Num(50)), Rect(Name("A"), Num(20), Num(10)) >>,
      << Rect(NoneV, Num(100), Num(50)), Rect(NoneV, Num(25), Num(15)),
         Element("circle", NoneV), Rect(NoneV, NoneV, NoneV) >>,
      << ColorsBlock(<<ColorAssignment("primary", "red")>>),
         IsStatement("w", L(40)),
         DefineBlock("card", <<Card>>),
         ForStatement("i", L(0), L(1), NoneV,
             <<Place("card", Str(<<Lit("P_"), Ph("i")>>), <<>>,
                     At(BinaryExpr("*", VarRefExpr("i"), L(50)), L(10)), NoneV)>>),
         Place("card", Name("Q"), <<>>, Below(Name("P_1")), L(2)) >>,
      << Rect(Name("A"), VarRefExpr("nope"), Num(1)) >>,
      \* gradient fills: one named element, as in test_gradient_in_svg_output
      << Shaded(Rect(Name("Box"), Num(100), Num(50)), "#C0C0C0", "#808080") >>,
      \* an unnamed element before a named one
      << Shaded(Rect(NoneV, Num(100), Num(50)), "#C0C0C0", "#808080"),
         Shaded(Rect(Name("B"), Num(20), Num(10)), "#FF0000", "#0000FF") >>,
      \* two elements of one name
      << Shaded(Rect(Name("A"), Num(100), Num(50)), "#C0C0C0", "#808080"),
         Shaded(Rect(Name("A"), Num(20), Num(10)), "#FF0000", "#0000FF") >>,
      \* a group and its child, then a sibling
      << [Shaded(Element("group", Name("G")), "#C0C0C0", "#808080") EXCEPT
             !.width = Num(200), !.height = Num(100),
             !.children = << Shaded([Rect(Name("C"), Num(5), Num(5)) EXCEPT
                                        !.fill = Color("red")],
                                    "#FF0000", "#0000FF"),
                             Rect(Name("D"), Num(5), Num(5)) >>],
         Shaded(Rect(Name("E"), Num(20), Num(10)), "#FFFFFF", "#0000FF") >> }

\* a page before or after a body
ConvertDocs ==
    { page \o body : page \in Pages, body \in Bodies }
    \cup { body \o page : page \in Pages, body \in Bodies }

ConvertInit ==
    /\ InitWith(ConvertDocs)
    /\ skip_lint \in BOOLEAN
    /\ diagnostics = <<>>
    /\ svg = ""

ConvertNext ==
    \/ _handle_is
    \/ _handle_colors
    \/ _handle_define
    \/ place
    \/ element
    \/ for_enter
    \/ for_iterate
    \/ statements_return
    \/ for_exit
    \/ propagate
    \/ convert_lint
    \/ resolve_layout
    \/ skip_canvas
    \/ layout_resolve_element
    \/ layout_return
    \/ build_svg

ConvertSpec == ConvertInit /\ [][ConvertNext]_vars

----------------------------------------------------------------------------
(* Properties of the conversion.                                           *)

\* the reference the element just laid out names
LastReference == StrText(hist.last.el.position.reference)

\* the lint result holds the reference check's error for the name
Reported(name) ==
    \E i \in DOMAIN diagnostics :
        /\ diagnostics[i].severity = "error"
        /\ diagnostics[i].rule = "references"
        /\ diagnostics[i].message = "Referenced element \"" \o name \o "\" not found"

\* some element of the document, at any depth, carries the name
Carried(name) ==
    \E k \in DOMAIN PreOrder(Elements(doc)) :
        /\ Truthy(PreOrder(Elements(doc))[k].name)
        /\ StrText(PreOrder(Elements(doc))[k].name) = name

\* C11 as stated: a reference the layout does not find in the box map has
\* been reported as an error by the lint of the same document.
C11_DanglingReported == Dangling => Reported(LastReference)

\* C11, amended: a reference the layout does not find in the box map has
\* been reported by the lint exactly when no element of the document carries
\* the name; a reference to an element declared later, to the element itself
\* or to one inside it is not reported.
C11_DanglingReportedIfUndeclared ==
    Dangling => (Reported(LastReference) <=> ~Carried(LastReference))

\* B refers to Nowhere: the lint reported it, and with skip_lint the layout
\* went on and did not find it
C11_Witness ==
    /\ Dangling
    /\ skip_lint
    /\ LastReference = "Nowhere"
    /\ Reported("Nowhere")
    /\ ~hist.last.raised

\* build_svg has rendered, the layout having returned the box map
Emitted == hist.last.op = "build_svg"

\* the elements build_svg renders: text has its children left out
RECURSIVE Rendered(_)
Rendered(elements) ==
    IF elements = <<>> THEN <<>>
    ELSE <<Head(elements)>>
         \o (IF Head(elements).element_type = "text" THEN <<>>
             ELSE Rendered(Head(elements).children))
         \o Rendered(Tail(elements))

\* build_svg leaves the canvas out (lines 43-46)
Drawn(d) == SelectSeq(Elements(d), LAMBDA el : ~IsCanvas(el))

\* C15: the emission does not fail: once the layout has returned, build_svg
\* returns a markup string for every resolved document, and an element
\* whose key has no entry in the box map is drawn with a box of size zero at
\* the origin.
C15_EmissionNeverFails ==
    Emitted =>
        /\ status = "converted"
        /\ svg # ""
        /\ \A k \in DOMAIN Rendered(Drawn(doc)) :
               KeyOf(Rendered(Drawn(doc))[k], boxes, counter) \notin DOMAIN boxes =>
                   BoxOf(Rendered(Drawn(doc))[k], boxes, counter) =
                       ResolvedBox(RInt(0), RInt(0), RInt(0), RInt(0))

Linting == hist.last.op = "lint"

\* the call has gone past the lint check of convert
PastLint == status \in {"layout", "laying", "laid", "converted"}

OnlyAdvisory(ds) == \A i \in DOMAIN ds : ds[i].severity \in {"warning", "info"}

\* C16 (as stated): warnings and info never block, and errors block the
\* emission only when the caller opts in: with the default arguments
\* (skip_lint False) convert does not raise on a lint result that holds an
\* error, and goes on to the emission.
C16_ErrorsBlockOnlyOnOptIn ==
    (Linting /\ skip_lint = FALSE) => status = "layout"

\* C16 (amended): warnings and info never block; errors block the emission
\* unless the caller opts out: with the default arguments (skip_lint False)
\* convert raises "Lint errors found" on a lint result that holds an error and
\* emits nothing, and only with skip_lint True is such a document emitted.
C16_ErrorsBlockUnlessSkipped ==
    /\ Linting =>
          /\ OnlyAdvisory(diagnostics) => status = "layout"
          /\ status = "error" <=> (~OnlyAdvisory(diagnostics) /\ skip_lint = FALSE)
          /\ status = "error" =>
                /\ error = "Lint errors found:\n" \o JoinLines(diagnostics)
                /\ svg = ""
    /\ (PastLint /\ ~OnlyAdvisory(diagnostics)) => skip_lint = TRUE

\* with the default arguments a lint result with an error and a warning has
\* stopped the conversion
C16_Witness ==
    /\ Linting
    /\ skip_lint = FALSE
    /\ \E i \in DOMAIN diagnostics : diagnostics[i].severity = "error"
    /\ \E i \in DOMAIN diagnostics : diagnostics[i].severity = "warning"
    /\ status = "error"

----------------------------------------------------------------------------
(* Two resolve calls on separate documents.  Each call is resolve(doc) of  *)
(* lines 419-422: a Resolver of its own and the document handed to it.     *)
(* The two calls run in one process, so the objects of both documents and  *)
(* the copies both calls make live in the one heap.  First each call is    *)
(* run alone, then both are run together, the running call changing at any *)
(* step of the resolver.                                                   *)

PairDocs ==
    { <<IsStatement("w", L(4)), Rect(Name("R"), VarRefExpr("w"), Num(10))>>,
      <<Rect(Name("R"), VarRefExpr("w"), Num(10)), IsStatement("w", L(6))>>,
      <<ColorsBlock(<<ColorAssignment("not_a_color_var", "red")>>),
        [Rect(Name("C"), Num(1), Num(1)) EXCEPT !.fill = ColorRef("not_a_color_var")]>>,
      <<[Rect(Name("C"), Num(1), Num(1)) EXCEPT !.fill = ColorRef("not_a_color_var")]>>,
      <<DefineBlock("T", Pair),
        ForStatement("i", L(0), L(1), NoneV,
            <<Place("T", Str(<<Lit("P_"), Ph("i")>>), <<>>, NoneV, NoneV)>>)>>,
      <<Place("T", Name("A"), <<>>, NoneV, NoneV)>>,
      <<ForStatement("w", L(0), L(1), NoneV,
            <<Rect(Name("L"), VarRefExpr("w"), Num(1))>>)>> }

\* Resolver() and the entry of Resolver.resolve(doc): lines 39-42, 46-47
Call(d, statements) ==
    [doc |-> d, variables |-> EmptyDict, color_vars |-> EmptyDict,
     templates |-> EmptyDict, _loop_depth |-> 0,
     stack |-> <<StmtsFrame(statements)>>, resolved_elements |-> <<>>,
     status |-> "running", error |-> ""]

\* the call that is running
Running ==
    [doc |-> doc, variables |-> variables, color_vars |-> color_vars,
     templates |-> templates, _loop_depth |-> _loop_depth, stack |-> stack,
     resolved_elements |-> resolved_elements, status |-> status, error |-> error]

\* one Resolver for both calls: the tables and the depth stay as the call
\* that ran last left them
Resume_shared(c) ==
    /\ doc' = c.doc
    /\ UNCHANGED <<variables, color_vars, templates, _loop_depth>>
    /\ stack' = c.stack
    /\ resolved_elements' = c.resolved_elements
    /\ status' = c.status
    /\ error' = c.error

\* the call c runs on: self is its own Resolver (lines 39-42), the locals
\* are those of its own frames
Resume(c) ==
    /\ doc' = c.doc
    /\ variables' = c.variables
    /\ color_vars' = c.color_vars
    /\ templates' = c.templates
    /\ _loop_depth' = c._loop_depth
    /\ stack' = c.stack
    /\ resolved_elements' = c.resolved_elements
    /\ status' = c.status
    /\ error' = c.error

Finished(c) == c.status \in {"done", "error"}

\* what the caller of resolve gets: the Document of line 49 or the
\* ResolveError
Outcome(c, h) ==
    IF c.status = "error" THEN Raise(c.error)
    ELSE Ok([i \in DOMAIN c.resolved_elements |-> ElTree(h, c.resolved_elements[i])])

NoHistory ==
    [last |-> [op |-> "resolve"], placed |-> <<>>, defined |-> EmptyDict,
     iterated |-> 0, laid |-> <<>>,
     first |-> [resolved |-> FALSE, out |-> <<>>]]

\* the runs: each call alone, then both together
Alone == {"first alone", "second alone"}
Together == "together"

PairInit ==
    /\ suspended \in { [k |-> "pair", docs |-> <<a, b>>, phase |-> "first alone", running |-> 1,
                        alone |-> <<NoneV, NoneV>>, call |-> NoneV] :
                       a \in PairDocs, b \in PairDocs }
    /\ doc = suspended.docs[1]
    /\ heap = StmtsObjects(doc, 1).objs
    /\ stack = <<StmtsFrame(StmtsObjects(doc, 1).stmts)>>
    /\ variables = EmptyDict
    /\ color_vars = EmptyDict
    /\ templates = EmptyDict
    /\ _loop_depth = 0
    /\ resolved_elements = <<>>
    /\ status = "running"
    /\ error = ""
    /\ boxes = EmptyDict
    /\ counter = 0
    /\ hist = NoHistory
    /\ NoConvert
    /\ NoUnits
    /\ NoWide

\* the two documents parsed anew, side by side in the heap, and a call on each
StartTogether(first, second) ==
    /\ heap' = first.objs \o second.objs
    /\ Resume(Call(suspended.docs[1], first.stmts))
    /\ suspended' = [suspended EXCEPT
                        !.alone[2] = Outcome(Running, heap),
                        !.phase = Together, !.running = 1,
                        !.call = Call(suspended.docs[2], second.stmts)]

\* a call run alone has returned or raised: what it gave is kept, and the
\* next run begins
resolve ==
    /\ suspended # NoneV
    /\ suspended.phase \in Alone
    /\ Finished(Running)
    /\ IF suspended.phase = "first alone"
       THEN /\ heap' = StmtsObjects(suspended.docs[2], 1).objs
            /\ Resume(Call(suspended.docs[2], StmtsObjects(suspended.docs[2], 1).stmts))
            /\ suspended' = [suspended EXCEPT !.alone[1] = Outcome(Running, heap),
                                              !.phase = "second alone", !.running = 2]
       ELSE StartTogether(StmtsObjects(suspended.docs[1], 1),
                          StmtsObjects(suspended.docs[2],
                              Len(StmtsObjects(suspended.docs[1], 1).objs) + 1))
    /\ hist' = NoHistory
    /\ UNCHANGED <<boxes, counter, skip_lint, diagnostics, svg, px_value,
                   px_container, pixels, wide>>

\* the other call runs on from where it stood
switch ==
    /\ suspended # NoneV
    /\ suspended.phase = Together
    /\ ~Finished(suspended.call)
    /\ Resume(suspended.call)
    /\ suspended' = [suspended EXCEPT !.call = Running, !.running = 3 - @]
    /\ hist' = [hist EXCEPT !.last = [op |-> "switch"]]
    /\ UNCHANGED <<heap, boxes, counter, skip_lint, diagnostics, svg, px_value,
                   px_container, pixels, wide>>

PairNext ==
    \/ _handle_is
    \/ _handle_colors
    \/ _handle_define
    \/ place
    \/ element
    \/ for_enter
    \/ for_iterate
    \/ statements_return
    \/ for_exit
    \/ propagate
    \/ resolve
    \/ switch

PairSpec == PairInit /\ [][PairNext]_vars

\* the call with number i of the two
CallOf(i) == IF suspended.running = i THEN Running ELSE suspended.call

\* the names a document's own statements bind: `is` and for variables,
\* palette entries, define blocks
RECURSIVE VariableNames(_)
VariableNames(statements) ==
    UNION { IF statements[i].k = "is" THEN {statements[i].name}
            ELSE IF statements[i].k = "for"
                 THEN {statements[i].var_name} \cup VariableNames(statements[i].body)
                 ELSE {} : i \in DOMAIN statements }

RECURSIVE ColorNames(_)
ColorNames(statements) ==
    UNION { IF statements[i].k = "colors"
            THEN { statements[i].assignments[j].name :
                     j \in DOMAIN statements[i].assignments }
            ELSE IF statements[i].k = "for" THEN ColorNames(statements[i].body)
                 ELSE {} : i \in DOMAIN statements }

RECURSIVE TemplateNames(_)
TemplateNames(statements) ==
    UNION { IF statements[i].k = "define" THEN {statements[i].name}
            ELSE IF statements[i].k = "for" THEN TemplateNames(statements[i].body)
                 ELSE {} : i \in DOMAIN statements }

\* the loops a call is inside of
OpenLoops(c) == Cardinality({ j \in DOMAIN c.stack : c.stack[j].k = "for" })

\* C17: two resolve calls on separate documents, run with their steps
\* interleaved in any order, share no state: each call returns the document,
\* or raises the error, that it gives when run alone, and at every step the
\* variables, color variables and templates of a call are bound by its own
\* document only and its loop depth counts its own open loops only.
C17_CallsIndependent ==
    (suspended.phase = Together) =>
        \A i \in 1..2 :
            /\ CallOf(i).doc = suspended.docs[i]
            /\ DOMAIN CallOf(i).variables \subseteq VariableNames(suspended.docs[i])
            /\ DOMAIN CallOf(i).color_vars \subseteq ColorNames(suspended.docs[i])
            /\ DOMAIN CallOf(i).templates \subseteq TemplateNames(suspended.docs[i])
            /\ CallOf(i)._loop_depth = OpenLoops(CallOf(i))
            /\ Finished(CallOf(i)) => Outcome(CallOf(i), heap) = suspended.alone[i]

\* the first call stands inside its loop with w bound, the second call has
\* run meanwhile and has raised on its own unbound w
C17_Witness ==
    /\ suspended.phase = Together
    /\ suspended.running = 2
    /\ ~Finished(suspended.call)
    /\ "w" \in DOMAIN suspended.call.variables
    /\ suspended.call._loop_depth = 1
    /\ status = "error"
    /\ error = "Undefined variable 'w'"
    /\ suspended.alone[2] = Raise(error)

----------------------------------------------------------------------------
(* The resolver on documents about scope: nested loops with placeholders,  *)
(* templates placed after their variables change, bodies that bind names.  *)

MaxGrid == 1   \* the last row and the last column of a grid of tiles

\* for row from 0 to rows: for col from 0 to cols:
\*     rect "Tile_{row}_{col}" 1 by 1 below "T_{col}_{row}"
Grid(before, rows, cols) ==
    before \o
    <<ForStatement("row", L(0), L(rows), NoneV,
        <<ForStatement("col", L(0), L(cols), NoneV,
            <<[Rect(Str(<<Lit("Tile_"), Ph("row"), Lit("_"), Ph("col")>>),
                    Num(1), Num(1)) EXCEPT
                 !.position = Below(Str(<<Lit("T_"), Ph("col"), Lit("_"),
                                          Ph("row")>>))]>>)>>)>>

\* what is bound before the outer loop starts
Before == { <<>>, <<IsStatement("col", L(7))>>, <<IsStatement("row", L(7))>> }

GridDocs == { Grid(before, rows, cols) :
                before \in Before, rows \in 0..MaxGrid, cols \in 0..MaxGrid }

\* a template whose body reads w, placed twice; w is bound, rebound or left
\* alone before the define block, between it and the first placement, and
\* between the two placements
Slab == Rect(NoneV, VarRefExpr("w"), BinaryExpr("+", VarRefExpr("w"), L(1)))

Binding == { <<>>, <<IsStatement("w", L(4))>>, <<IsStatement("w", L(6))>> }

PlacementDocs ==
    { s1 \o <<DefineBlock("T", <<Slab>>)>> \o s2
         \o <<Place("T", Name("A"), <<>>, NoneV, NoneV)>> \o s3
         \o <<Place("T", Name("B"), <<>>, At(L(1), VarRefExpr("w")), NoneV)>> :
      s1 \in Binding, s2 \in Binding, s3 \in Binding }

\* a loop whose body binds x, assigns a color variable and defines a
\* template, all three used after the loop; x is bound before the loop or
\* not
Tinted(el) == [el EXCEPT !.fill = ColorRef("not_a_color_var")]

Keeping(before, end) ==
    before \o
    << ForStatement("i", L(0), L(end), NoneV,
          << IsStatement("x", BinaryExpr("+", BinaryExpr("*", VarRefExpr("i"), L(2)),
                                         L(1))),
             ColorsBlock(<<ColorAssignment("not_a_color_var", "red")>>),
             DefineBlock("T", <<Rect(NoneV, VarRefExpr("x"), Num(2))>>),
             Rect(Box_i, VarRefExpr("x"), Num(50)) >>),
       Tinted(Rect(Name("After"), VarRefExpr("x"), Num(50))),
       Place("T", Name("P"), <<>>, NoneV, NoneV) >>

KeepingDocs ==
    { Keeping(before, end) :
        before \in {<<>>, <<IsStatement("x", L(5))>>}, end \in 0..2 }

\* three loops deep, i bound before: the innermost loop over i runs, or its
\* body raises, or its bounds are rejected
Innermost ==
    { ForStatement("i", L(0), L(1), NoneV,
          <<Rect(Box_i, VarRefExpr("i"), Num(50))>>),
      ForStatement("i", L(0), L(1), NoneV,
          <<Rect(Box_i, VarRefExpr("nope"), Num(50))>>),
      ForStatement("i", L(1), L(0), L(1),
          <<Rect(Box_i, VarRefExpr("i"), Num(50))>>) }

Nesting(before, inner) ==
    before \o
    << ForStatement("r", L(0), L(1), NoneV,
          <<ForStatement("c", L(0), L(0), NoneV, <<inner>>)>>),
       Rect(Name("After"), VarRefExpr("i"), Num(50)) >>

NestingDocs ==
    { Nesting(before, inner) :
        before \in {<<>>, <<IsStatement("i", L(99))>>}, inner \in Innermost }

ScopeDocs == GridDocs \cup PlacementDocs \cup KeepingDocs \cup NestingDocs

ScopeInit == InitWith(ScopeDocs) /\ NoConvert

ScopeSpec == ScopeInit /\ [][Next]_vars

----------------------------------------------------------------------------
(* Properties of scope.                                                    *)

\* the tiles of a grid in row-major order: name and position reference
Tiles(rows, cols) ==
    [k \in 1..((rows + 1) * (cols + 1)) |->
        [name |-> Name("Tile_" \o ToString((k - 1) \div (cols + 1)) \o "_"
                       \o ToString((k - 1) % (cols + 1))),
         reference |-> Name("T_" \o ToString((k - 1) % (cols + 1)) \o "_"
                            \o ToString((k - 1) \div (cols + 1)))]]

Named(elements) ==
    [k \in DOMAIN elements |->
        [name |-> elements[k].name, reference |-> elements[k].position.reference]]

\* C21: in nested for loops a {v} placeholder in an element name or a
\* position reference that names the variable of an enclosing loop, outer or
\* inner, is replaced by that loop's value for the current iteration:
\* Tile_{row}_{col} gives one name per (row, col) in row-major order, also
\* when a variable with the name of the inner loop's variable, or of the
\* outer one, was bound before the outer loop started.
C21_NestedPlaceholders ==
    \A before \in Before, rows \in 0..MaxGrid, cols \in 0..MaxGrid :
        (doc = Grid(before, rows, cols) /\ status = "done") =>
            Named(Resolved) = Tiles(rows, cols)

\* the same when no variable with the inner loop's name is bound before the
\* outer loop
NestedPlaceholdersUnlessBound ==
    \A before \in Before \ {<<IsStatement("col", L(7))>>},
       rows \in 0..MaxGrid, cols \in 0..MaxGrid :
        (doc = Grid(before, rows, cols) /\ status = "done") =>
            Named(Resolved) = Tiles(rows, cols)

\* a placement of a template that is defined
Placing == AtStatement /\ Cur.k = "place" /\ Cur.template_name \in DOMAIN templates

\* the body of the template being placed, as its define block wrote it
Written == hist.defined[Cur.template_name]

\* the element a placement has given
Placed == ElTree(heap, hist.last.out[1])

C22_Step ==
    (Placing /\ Len(Written) = 1 /\ hist'.last.op = "place") =>
        IF /\ _eval_expr(variables, Written[1].width).ok
           /\ _eval_expr(variables, Written[1].height).ok
        THEN /\ status' = "running"
             /\ ElTree(heap', hist'.last.out[1]).width =
                    _eval_expr(variables, Written[1].width).val
             /\ ElTree(heap', hist'.last.out[1]).height =
                    _eval_expr(variables, Written[1].height).val
        ELSE /\ status' = "raising"
             /\ error' \in UndefinedVariable({"w"})

\* C22: a template body is evaluated at each placement, not at its
\* definition: the expressions of the placed element have the values they
\* evaluate to in the variable table as it stands when the place statement is
\* reached, whatever was bound when the define block was reached, and the
\* placement raises only if they do not evaluate in that table.
C22_EvaluatedAtPlacement == [][C22_Step]_vars

\* w was 4 at the first placement and is 6 at the second: the two elements
\* are 4 by 5 and 6 by 7
C22_Witness ==
    /\ hist.last.op = "place"
    /\ Len(hist.placed) = 2
    /\ ElTree(heap, hist.placed[1]).width = Num(4)
    /\ Placed.width = Num(6)
    /\ Placed.height = Num(7)
    /\ Placed.position.y = Num(6)

\* w was unbound at the define block and bound before the placement
LateBinding ==
    /\ hist.last.op = "place"
    /\ doc[1].k = "define"
    /\ status = "running"
    /\ Placed.width = Num(4)

----------------------------------------------------------------------------
(* The layout of positions that populate more than one mode.               *)

\* x only, x and y, an anchor, a relative keyword and a reference, all
\* together or some of them; A has a box when B is laid out, Z has none yet
MixedPositions ==
    { Position(xy[1], xy[2], anchor, relative, reference, None, NoneV) :
        xy \in { <<NoneV, NoneV>>, <<Px(30), NoneV>>, <<NoneV, Px(40)>>,
                 <<Px(30), Value(RInt(50), "%")>> },
        anchor \in {None, "", "bottom right"},
        relative \in {None, "", "below"},
        reference \in {NoneV, Name("A"), Name("Z")} }

MixedDocs ==
    { << Sheet,
         Shape("rect", Name("A"), Px(100), Px(50), At(Px(200), Px(100))),
         [Shape("group", Name("G"), Px(200), Px(150), At(Px(300), Px(200)))
            EXCEPT !.children = <<Shape("rect", Name("B"), Px(20), Px(10), p)>>],
         Shape("rect", Name("Z"), Px(40), Px(40), NoneV) >> :
        p \in MixedPositions }

MixedInit ==
    /\ doc \in MixedDocs
    /\ heap = <<>>
    /\ stack = <<>>
    /\ variables = EmptyDict
    /\ color_vars = EmptyDict
    /\ templates = EmptyDict
    /\ _loop_depth = 0
    /\ resolved_elements = <<>>
    /\ status = "layout"
    /\ error = ""
    /\ boxes = EmptyDict
    /\ counter = 0
    /\ hist = [last |-> [op |-> "init"], placed |-> <<>>, defined |-> EmptyDict,
               iterated |-> 0, laid |-> <<>>,
               first |-> [resolved |-> FALSE, out |-> <<>>]]
    /\ NoConvert
    /\ NoPair
    /\ NoUnits
    /\ NoWide

MixedSpec == MixedInit /\ [][LayoutNext]_vars

\* an element with a Position has just been laid out
Positioned == hist.last.op = "layout" /\ hist.last.el.position # NoneV

\* a coordinate in pixels: a percentage is of the container's side
Coordinate(v, side) ==
    IF v.unit = "%" THEN RDiv(RMul(v.number, side), RInt(100)) ELSE v.number

HasBox(reference) == Truthy(reference) /\ StrText(reference) \in DOMAIN hist.last.before

\* at the anchor's fractions of the room a box leaves the element
AnchoredWithin(anchor, box) ==
    /\ hist.last.box.x =
           RAdd(box.x, RMul(HorizontalFraction(anchor),
                            RSub(box.width, hist.last.box.width)))
    /\ hist.last.box.y =
           RAdd(box.y, RMul(VerticalFraction(anchor),
                            RSub(box.height, hist.last.box.height)))

\* C23: when a Position populates more than one mode, resolve_layout applies
\* them in a fixed priority: explicit x and y, both present, first, the
\* element being centred on that point (x - W/2, y - H/2); else the relative
\* placement when the reference has a box; else the anchor placement (in the
\* reference if it has a box, else in the container); else the container's
\* origin.
C23_PositionPriority ==
    Positioned =>
        /\ ~hist.last.raised
        /\ IF hist.last.el.position.x # NoneV /\ hist.last.el.position.y # NoneV
           THEN /\ hist.last.box.x =
                       RSub(Coordinate(hist.last.el.position.x,
                                       hist.last.container.width),
                            RDiv(hist.last.box.width, RInt(2)))
                /\ hist.last.box.y =
                       RSub(Coordinate(hist.last.el.position.y,
                                       hist.last.container.height),
                            RDiv(hist.last.box.height, RInt(2)))
           ELSE IF /\ hist.last.el.position.relative = "below"
                   /\ HasBox(hist.last.el.position.reference)
           THEN /\ hist.last.box.y = RAdd(ReferenceBox.y, ReferenceBox.height)
                /\ CentreX(hist.last.box) = CentreX(ReferenceBox)
           ELSE IF hist.last.el.position.anchor = "bottom right"
           THEN AnchoredWithin("bottom right",
                               IF HasBox(hist.last.el.position.reference)
                               THEN ReferenceBox ELSE hist.last.container)
           ELSE AtContainerOrigin

\* B, 20 by 10 in the group G at (200, 125), with x, y, an anchor and a
\* placement below A, which has its box: B is centred on (30, 75)
C23_Witness ==
    /\ Positioned
    /\ hist.last.key = "B"
    /\ hist.last.el.position =
           Position(Px(30), Value(RInt(50), "%"), "bottom right", "below",
                    Name("A"), None, NoneV)
    /\ "A" \in DOMAIN hist.last.before
    /\ hist.last.box = ResolvedBox(RInt(20), RInt(70), RInt(20), RInt(10))

\* the nodes of a list of XmlElements in pre-order
RECURSIVE Nodes(_)
Nodes(nodes) ==
    IF nodes = <<>> THEN <<>>
    ELSE <<Head(nodes)>> \o Nodes(Head(nodes).children) \o Nodes(Tail(nodes))

\* node.get(key), "" when the attribute is not set
Attr(node, key) ==
    IF HasKey(node.attrib, key)
    THEN node.attrib[CHOOSE i \in DOMAIN node.attrib : node.attrib[i].key = key].val
    ELSE ""

\* how many of the first n elements use a gradient fill
GradientsBefore(elements, n) ==
    Cardinality({ j \in 1..n : elements[j].gradient # NoneV })

Defined(grad_id, gradient) ==
    \E i \in DOMAIN hist.last.defs :
        hist.last.defs[i] = LinearGradient(grad_id, gradient)

\* the k-th element drawn, with k gradients before it, has the definition
\* grad_k and its node refers to it
OwnGradient(elements, nodes, k) ==
    /\ Defined("grad_" \o ToString(GradientsBefore(elements, k - 1)),
               elements[k].gradient)
    /\ Attr(nodes[k], "fill") =
           "url(#grad_" \o ToString(GradientsBefore(elements, k - 1)) \o ")"

\* C24: every element that uses a gradient fill, named or unnamed, gets its
\* own definition with the identifier grad_<k>, k being its ordinal among
\* the gradient-filled elements in pre-order, and the node emitted for the
\* element has its fill set to the URL reference of exactly that definition.
C24_GradientPerElement ==
    (Emitted /\ status = "converted") =>
        \A k \in DOMAIN Rendered(Drawn(doc)) :
            Rendered(Drawn(doc))[k].gradient # NoneV =>
                OwnGradient(Rendered(Drawn(doc)), Nodes(hist.last.rendered.val), k)

\* the same of the documents whose gradient-filled elements are all named,
\* each with a name of its own
NamedApart(elements) ==
    /\ \A k \in DOMAIN elements :
           elements[k].gradient # NoneV => Truthy(elements[k].name)
    /\ \A j, k \in DOMAIN elements :
           (j # k /\ Truthy(elements[j].name) /\ elements[k].gradient # NoneV)
               => elements[j].name # elements[k].name

GradientPerNamedElement ==
    (Emitted /\ status = "converted" /\ NamedApart(Rendered(Drawn(doc)))) =>
        \A k \in DOMAIN Rendered(Drawn(doc)) :
            Rendered(Drawn(doc))[k].gradient # NoneV =>
                OwnGradient(Rendered(Drawn(doc)), Nodes(hist.last.rendered.val), k)

----------------------------------------------------------------------------
(* Trees laid out: B two groups deep, referring to an element before it,   *)
(* to an ancestor, to the canvas or to an element after it.                *)

TreeReferences == {"A", "E", "C", "G", "H", "Page", "Z"}

TreePositions ==
    { Relative("below", Name(r), None, NoneV) : r \in TreeReferences }
    \cup { Anchor("top right", Name(r)) : r \in TreeReferences }
    \cup { Relative("inside", Name(r), "top right", Px(5)) : r \in TreeReferences }

\* second is named E, or A like the element before it; first_child is
\* named C, or G like its parent
Tree(second, first_child, p) ==
    << [Sheet EXCEPT !.name = Name("Page")],
       Shape("rect", Name("A"), Px(100), Px(50), At(Px(200), Px(100))),
       Shape("rect", Name(second), Px(60), Px(30), At(Px(100), Px(250))),
       [Shape("group", Name("G"), Px(200), Px(100), At(Px(300), Px(200)))
          EXCEPT !.children =
              << Shape("rect", Name(first_child), Px(20), Px(10), NoneV),
                 [Shape("group", Name("H"), Value(RInt(50), "%"),
                        Value(RInt(50), "%"), Anchor("center", NoneV))
                    EXCEPT !.children =
                        <<Shape("rect", Name("B"), Px(20), Px(10), p)>>] >>],
       Shape("rect", Name("Z"), Px(40), Px(40), NoneV) >>

TreeDocs ==
    { Tree(second, first_child, p) :
        second \in {"A", "E"}, first_child \in {"C", "G"}, p \in TreePositions }
    \cup KeyDocs

TreeInit ==
    /\ doc \in TreeDocs
    /\ heap = <<>>
    /\ stack = <<>>
    /\ variables = EmptyDict
    /\ color_vars = EmptyDict
    /\ templates = EmptyDict
    /\ _loop_depth = 0
    /\ resolved_elements = <<>>
    /\ status = "layout"
    /\ error = ""
    /\ boxes = EmptyDict
    /\ counter = 0
    /\ hist = [last |-> [op |-> "init"], placed |-> <<>>, defined |-> EmptyDict,
               iterated |-> 0, laid |-> <<>>,
               first |-> [resolved |-> FALSE, out |-> <<>>]]
    /\ NoConvert
    /\ NoPair
    /\ NoUnits
    /\ NoWide

TreeSpec == TreeInit /\ [][LayoutNext]_vars

----------------------------------------------------------------------------
(* Properties of the order of layout.                                      *)

\* the index in pre-order of the parent of the k-th element, 0 at top level
ParentOf(k) ==
    IF \E j \in 1..(k - 1) : k <= j + Len(PreOrder(LaidOut[j].children))
    THEN CHOOSE j \in 1..(k - 1) :
             /\ k <= j + Len(PreOrder(LaidOut[j].children))
             /\ \A i \in (j + 1)..(k - 1) :
                    k > i + Len(PreOrder(LaidOut[i].children))
    ELSE 0

\* the box of the canvas, or the default one: the container of the top level
CanvasBox ==
    ResolvedBox(stack[1].container_x, stack[1].container_y,
                stack[1].container_w, stack[1].container_h)

\* the last of the first n elements laid out that bears the name, 0 if none
LastNamed(name, n) ==
    IF \E j \in 1..n : LaidOut[j].name = name
    THEN CHOOSE j \in 1..n :
             /\ LaidOut[j].name = name
             /\ \A i \in (j + 1)..n : LaidOut[i].name # name
    ELSE 0

\* the step laid out the k-th element in pre-order
LaidStep(k) ==
    /\ hist.last.op = "layout"
    /\ ~hist.last.raised
    /\ k = Len(hist.laid)

\* the k-th element got its parent's box as container, and its own box is in
\* the map while none of its descendants is laid out
TopDown(k) ==
    /\ hist.last.el = LaidOut[k]
    /\ counter = k
    /\ hist.last.container =
           IF ParentOf(k) = 0 THEN CanvasBox ELSE hist.laid[ParentOf(k)]
    /\ hist.last.box = hist.laid[k]
    /\ boxes = DictSet(hist.last.before, hist.last.key, hist.laid[k])
    /\ Top = LayoutFrame(LaidOut[k].children, hist.laid[k].width,
                         hist.laid[k].height, hist.laid[k].x, hist.laid[k].y)

\* C25 as stated: layout is top-down, each child laid out with its parent's
\* just-computed box as container and each box entered in the map before
\* any descendant is laid out, so that the map an element sees holds, under
\* the name of every element before it in pre-order, that element's box.
C25_TopDownFindsBox ==
    \A k \in 1..Len(LaidOut) :
        LaidStep(k) =>
            /\ TopDown(k)
            /\ \A j \in 1..(k - 1) :
                   Truthy(LaidOut[j].name) =>
                       DictGet(hist.last.before, StrText(LaidOut[j].name))
                           = hist.laid[j]

\* C25, amended: layout is top-down, each child laid out with its parent's
\* just-computed box as container and each box entered in the map before
\* any descendant is laid out, so that the map an element sees holds, under
\* the name of every element before it in pre-order, the box of the last
\* element before it that bears this name: that element's own box when no
\* element laid out since shares its name.
C25_TopDownFindsLastBox ==
    \A k \in 1..Len(LaidOut) :
        LaidStep(k) =>
            /\ TopDown(k)
            /\ \A j \in 1..(k - 1) :
                   Truthy(LaidOut[j].name) =>
                       DictGet(hist.last.before, StrText(LaidOut[j].name))
                           = hist.laid[LastNamed(LaidOut[j].name, k - 1)]

\* B, two groups deep, is laid out in the box of H, itself laid out in the
\* box of G, and placed below its ancestor G
C25_Witness ==
    /\ LaidStep(6)
    /\ hist.last.el.name = Name("B")
    /\ hist.last.el.position = Relative("below", Name("G"), None, NoneV)
    /\ ParentOf(6) = 5
    /\ ParentOf(5) = 3
    /\ hist.laid[3] = ResolvedBox(RInt(200), RInt(150), RInt(200), RInt(100))
    /\ hist.last.before["G"] = hist.laid[3]
    /\ hist.last.container = ResolvedBox(RInt(250), RInt(175), RInt(100), RInt(50))
    /\ hist.last.box = ResolvedBox(RInt(290), RInt(250), RInt(20), RInt(10))

----------------------------------------------------------------------------
(* Properties of the boxes the emitter draws from.                         *)

\* the k-th element laid out lies under a text element, whose children
\* build_svg does not render
RECURSIVE UnderText(_)
UnderText(k) ==
    /\ ParentOf(k) # 0
    /\ \/ LaidOut[ParentOf(k)].element_type = "text"
       \/ UnderText(ParentOf(k))

\* the indices in pre-order of the elements build_svg draws
DrawnAt == { k \in DOMAIN LaidOut : ~UnderText(k) }

\* C26: for every element of a resolved document, named or unnamed, the box
\* the emitter draws it from is the box resolve_layout computed for that
\* same element, and two distinct unnamed elements are never drawn from the
\* same entry of the box map.
C26_DrawnFromOwnBox ==
    (Emitted /\ status = "converted") =>
        /\ \A k \in DrawnAt :
               BoxOf(LaidOut[k], boxes, counter) = hist.laid[k]
        /\ \A j, k \in DrawnAt :
               (j # k /\ ~Truthy(LaidOut[j].name) /\ ~Truthy(LaidOut[k].name))
                   => KeyOf(LaidOut[j], boxes, counter)
                          # KeyOf(LaidOut[k], boxes, counter)

\* the same of the documents with at most one element without name, the
\* names of the others all different
OneUnnamed ==
    /\ Cardinality({ k \in DOMAIN LaidOut : ~Truthy(LaidOut[k].name) }) <= 1
    /\ \A j, k \in DOMAIN LaidOut :
           (j # k /\ Truthy(LaidOut[j].name)) => LaidOut[j].name # LaidOut[k].name

DrawnFromOwnBoxIfOneUnnamed ==
    (Emitted /\ status = "converted" /\ OneUnnamed) =>
        \A k \in DrawnAt : BoxOf(LaidOut[k], boxes, counter) = hist.laid[k]

----------------------------------------------------------------------------
(* Loops at 2^53.  Value.number is a Python float, a double: the doubles   *)
(* of [2^52, 2^53] are the integers, those of [2^53, 2^54] the even        *)
(* integers.  A double in this range is written as its offset from 2^53;   *)
(* a step is a small integer, written as it is.                            *)

MaxWide == 6        \* loop bounds range over 2^53 - MaxWide .. 2^53 + MaxWide
MaxOver == 2        \* iterations followed past the computed count

\* the double nearest to 2^53 + t, of two equally near the one whose
\* mantissa is even: the result of a float addition whose exact sum is
\* 2^53 + t
Double(t) ==
    IF t <= 0 \/ t % 2 = 0 THEN t
    ELSE IF (t - 1) % 4 = 0 THEN t - 1
    ELSE t + 1

\* the offsets that are doubles
WideBounds == { t \in (0 - MaxWide)..MaxWide : Double(t) = t }

\* stmt.step: none, or a literal
WideSteps == {<<>>} \cup { <<s>> : s \in -3..3 }

\* line 180: end_n + 1e-9 and end_n - 1e-9 are end_n again, 1e-9 being less
\* than half the gap from one double to the next
WideCond(i, end_n, step_n) ==
    \/ step_n > 0 /\ i <= Double(end_n)
    \/ step_n < 0 /\ i >= Double(end_n)

\* lines 144-149
WideStep(start_n, end_n, step) ==
    IF step # <<>> THEN step[1]
    ELSE IF end_n >= start_n THEN 1 ELSE -1

\* lines 151-171: the message raised, "" if none.  end_n - start_n is a
\* small integer, and so is the quotient cut by int()
WideValidated(start_n, end_n, step_n) ==
    IF step_n = 0 THEN "For loop step cannot be zero"
    ELSE IF step_n > 0 /\ end_n < start_n
    THEN "For loop step direction does not match range (positive step, end < start)"
    ELSE IF step_n < 0 /\ end_n > start_n
    THEN "For loop step direction does not match range (negative step, end > start)"
    ELSE IF (Abs(end_n - start_n) \div Abs(step_n)) + 1 > _MAX_LOOP_ITERATIONS
    THEN "For loop would produce too many iterations"
    ELSE ""

WideInit ==
    /\ NoResolve
    /\ NoConvert
    /\ NoPair
    /\ NoUnits
    /\ wide \in { [pc |-> "called", start_n |-> a, end_n |-> b, step |-> s,
                   step_n |-> 0, n_iters |-> 0, i |-> a, bound |-> 0,
                   iters |-> 0, error |-> ""] :
                  a \in WideBounds, b \in WideBounds, s \in WideSteps }

\* _handle_for up to its first while test (lines 127-179)
wide_enter ==
    /\ wide # NoneV
    /\ wide.pc = "called"
    /\ IF WideValidated(wide.start_n, wide.end_n,
                        WideStep(wide.start_n, wide.end_n, wide.step)) # ""
       THEN /\ wide' = [wide EXCEPT
                          !.pc = "raised",
                          !.error = WideValidated(wide.start_n, wide.end_n,
                                        WideStep(wide.start_n, wide.end_n, wide.step))]
            /\ UNCHANGED _loop_depth
       ELSE /\ wide' = [wide EXCEPT
                          !.pc = "while",
                          !.step_n = WideStep(wide.start_n, wide.end_n, wide.step),
                          !.n_iters =
                              (Abs(wide.end_n - wide.start_n)
                                 \div Abs(WideStep(wide.start_n, wide.end_n,
                                                   wide.step))) + 1,
                          !.i = wide.start_n]
            /\ _loop_depth' = _loop_depth + 1
    /\ UNCHANGED <<doc, heap, variables, color_vars, templates, stack,
                   resolved_elements, status, error, boxes, counter, hist,
                   skip_lint, diagnostics, svg, suspended, px_value,
                   px_container, pixels>>

\* one pass of the while loop (lines 180-186): the variable bound to i, the
\* body resolved, i += step_n
wide_iterate ==
    /\ wide # NoneV
    /\ wide.pc = "while"
    /\ WideCond(wide.i, wide.end_n, wide.step_n)
    /\ wide.iters < wide.n_iters + MaxOver
    /\ wide' = [wide EXCEPT !.bound = wide.i,
                            !.iters = @ + 1,
                            !.i = Double(wide.i + wide.step_n)]
    /\ UNCHANGED <<doc, heap, variables, color_vars, templates, _loop_depth,
                   stack, resolved_elements, status, error, boxes, counter,
                   hist, skip_lint, diagnostics, svg, suspended, px_value,
                   px_container, pixels>>

\* the while test fails: the finally block and the return (lines 187-195)
wide_exit ==
    /\ wide # NoneV
    /\ wide.pc = "while"
    /\ ~WideCond(wide.i, wide.end_n, wide.step_n)
    /\ wide' = [wide EXCEPT !.pc = "returned"]
    /\ _loop_depth' = _loop_depth - 1
    /\ UNCHANGED <<doc, heap, variables, color_vars, templates, stack,
                   resolved_elements, status, error, boxes, counter, hist,
                   skip_lint, diagnostics, svg, suspended, px_value,
                   px_container, pixels>>

WideNext ==
    \/ wide_enter
    \/ wide_iterate
    \/ wide_exit

WideSpec == WideInit /\ [][WideNext]_vars

----------------------------------------------------------------------------
(* Properties of the number of iterations.                                 *)

\* floor(|end - start| / |step|) + 1 of a loop over integers
Count(start_n, end_n, step_n) == (Abs(end_n - start_n) \div Abs(step_n)) + 1

\* a loop with integer bounds and step that has passed validation
IntegerStepLoop(last) ==
    /\ IntegerLoop(last.stmt)
    /\ last.step_n.d = 1

\* the loop has passed validation
Unrolling == wide # NoneV /\ wide.pc \in {"while", "returned"}

\* C27: every for loop that passes validation terminates, after exactly
\* floor(|end - start| / |step|) + 1 iterations for integer bounds and step,
\* whatever its body does: no more iterations than that are ever begun, a
\* loop that returns has run that many, and the k-th iteration binds
\* start + k * step, also when the body of the iteration before has bound
\* the name of the loop variable to something else.
C27_TerminatesAfterCount ==
    /\ hist.last.op = "for_iterate" /\ IntegerStepLoop(hist.last) =>
           /\ hist.last.k < Count(hist.last.start_n.n, hist.last.end_n.n,
                                  hist.last.step_n.n)
           /\ hist.last.value = KthValue(hist.last, hist.last.k)
           /\ variables[hist.last.stmt.var_name] = Value(hist.last.value, None)
    /\ hist.last.op = "for_exit" /\ IntegerStepLoop(hist.last) =>
           hist.last.iters = Count(hist.last.start_n.n, hist.last.end_n.n,
                                   hist.last.step_n.n)
    /\ Unrolling =>
           /\ wide.iters <= Count(wide.start_n, wide.end_n, wide.step_n)
           /\ wide.iters > 0 =>
                  wide.bound = wide.start_n + (wide.iters - 1) * wide.step_n
           /\ wide.pc = "returned" =>
                  wide.iters = Count(wide.start_n, wide.end_n, wide.step_n)

\* the same of the loops whose values, the one that ends the loop included,
\* are all doubles: integers up to 2^53
AllDoubles ==
    \A k \in 0..Count(wide.start_n, wide.end_n, wide.step_n) :
        wide.start_n + k * wide.step_n <= 0

TerminatesAfterCountBelowWide ==
    (Unrolling /\ AllDoubles) =>
        /\ wide.iters <= Count(wide.start_n, wide.end_n, wide.step_n)
        /\ wide.iters > 0 =>
               wide.bound = wide.start_n + (wide.iters - 1) * wide.step_n
        /\ wide.pc = "returned" =>
               wide.iters = Count(wide.start_n, wide.end_n, wide.step_n)

----------------------------------------------------------------------------
(* Properties of the loop bookkeeping.                                     *)

\* the step leaves a call of _handle_for that had entered its loop: by its
\* return or by an error raised in the body
LeavesLoop ==
    /\ status \in {"running", "raising"}
    /\ stack # <<>>
    /\ Top.k = "for"
    /\ Len(stack') < Len(stack)

\* the step is a call of _handle_for that raises before its loop: the depth
\* ceiling or the validation of the bounds
RejectsLoop ==
    /\ AtStatement
    /\ Cur.k = "for"
    /\ status' = "raising"

C28_Step ==
    /\ LeavesLoop =>
           /\ _loop_depth' = _loop_depth - 1
           /\ _loop_depth' = Cardinality({i \in DOMAIN stack' : stack'[i].k = "for"})
           /\ DictGet(variables', Top.stmt.var_name) = Top.h_pre
    /\ RejectsLoop =>
           /\ _loop_depth' = _loop_depth
           /\ variables' = variables
           /\ stack' = stack

\* C28: the loop bookkeeping is balanced on every exit path: the depth
\* counter is the number of loops open; a call of _handle_for that returns,
\* or that raises from inside its body, at any depth, leaves the counter at
\* its value before the call and the loop variable bound as before the loop
\* (or unbound); a call that raises from its validation touches neither; and
\* once resolve has returned or raised the counter is 0.
C28_BookkeepingBalanced ==
    /\ [](_loop_depth = ForDepth)
    /\ [](status \in {"done", "error"} => _loop_depth = 0)
    /\ [][C28_Step]_vars

\* an error raised in the body of an inner loop has left that loop, the
\* outer loops still open, and the inner loop's variable is bound as before
C28_Witness ==
    /\ hist.last.op = "for_unwind"
    /\ status = "raising"
    /\ ForDepth >= 2
    /\ _loop_depth = ForDepth
    /\ hist.last.pre # NoneV
    /\ variables[hist.last.var_name] = hist.last.pre

----------------------------------------------------------------------------
(* Properties of what a loop leaves behind.                                *)

\* the last statement of the body, at its top level, that binds the name
LastIs(body, name) ==
    body[CHOOSE j \in DOMAIN body :
             /\ body[j].k = "is" /\ body[j].name = name
             /\ \A i \in (j + 1)..Len(body) :
                    ~(body[i].k = "is" /\ body[i].name = name)]

\* the names the body binds from the loop variable alone
BoundInBody(stmt) ==
    { stmt.body[j].name : j \in { i \in DOMAIN stmt.body :
          /\ stmt.body[i].k = "is"
          /\ stmt.body[i].name # stmt.var_name
          /\ Refs(stmt.body[i].expr) \subseteq {stmt.var_name} } }

\* the value the name got in the last iteration of the loop just left
LastAssigned(last, name) ==
    _eval_expr(DictSet(EmptyDict, last.var_name,
                       Value(KthValue(last, last.iters - 1), None)),
               LastIs(last.stmt.body, name).expr).val

Blocks(body, kind) == SelectSeq(body, LAMBDA st : st.k = kind)

\* leaving a loop changes no binding but the loop variable's
C29_Step ==
    LeavesLoop =>
        /\ \A name \in (DOMAIN variables \cup DOMAIN variables')
                           \ {Top.stmt.var_name} :
               DictGet(variables', name) = DictGet(variables, name)
        /\ color_vars' = color_vars
        /\ templates' = templates

\* what the body bound is bound when the loop returns
C29_Kept ==
    hist.last.op = "for_exit" =>
        /\ \A name \in BoundInBody(hist.last.stmt) :
               DictGet(variables, name) = LastAssigned(hist.last, name)
        /\ \A j \in DOMAIN Blocks(hist.last.stmt.body, "colors") :
               color_vars =
                   AssignColors(color_vars,
                                Blocks(hist.last.stmt.body, "colors")[j].assignments, 1)
        /\ \A j \in DOMAIN Blocks(hist.last.stmt.body, "define") :
               /\ Blocks(hist.last.stmt.body, "define")[j].name \in DOMAIN templates
               /\ StmtTree(heap, templates[Blocks(hist.last.stmt.body, "define")[j].name])
                      = StmtTree(heap, Blocks(hist.last.stmt.body, "define")[j])

\* C29: only the loop variable is scoped to a for loop: leaving the loop
\* changes no other variable, no color variable and no template, so a
\* variable bound by an `is` statement of the body is bound after the loop
\* to the value of the last iteration, and the color variables and the
\* templates defined in the body are defined after the loop.
C29_OnlyLoopVariableScoped == []C29_Kept /\ [][C29_Step]_vars

\* after for i from 0 to 2 with x is i * 2 + 1 in its body, x bound to 5
\* before, the element after the loop is 5 wide and filled with the color
\* assigned in the body, and the template defined in the body is placed
C29_Witness ==
    /\ status = "done"
    /\ hist.iterated = 3
    /\ DOMAIN variables = {"x"}
    /\ variables["x"] = Num(5)
    /\ DictGet(color_vars, "not_a_color_var") = Color("#FF0000")
    /\ "T" \in DOMAIN templates
    /\ Len(resolved_elements) = 5
    /\ heap[resolved_elements[4]].name = Name("After")
    /\ heap[resolved_elements[4]].width = Num(5)
    /\ heap[resolved_elements[4]].fill = Color("#FF0000")
    /\ heap[resolved_elements[5]].name = Name("P")
    /\ heap[resolved_elements[5]].width = Num(5)

----------------------------------------------------------------------------
(* resolve called on what resolve returned.                                *)

\* the elements of a list, as trees
Trees(h, refs) == [i \in DOMAIN refs |-> ElTree(h, refs[i])]

\* resolve(resolve(doc)): a new Resolver, its tables empty, walks the
\* Document just returned, whose statements are the resolved elements
\* themselves (resolver.py 39-49, 419-422)
resolve_again ==
    /\ UNCHANGED others
    /\ status = "done"
    /\ ~hist.first.resolved
    /\ doc' = Trees(heap, resolved_elements)
    /\ stack' = <<StmtsFrame([i \in DOMAIN resolved_elements |->
                                 [k |-> "el", ref |-> resolved_elements[i]]])>>
    /\ variables' = EmptyDict
    /\ color_vars' = EmptyDict
    /\ templates' = EmptyDict
    /\ _loop_depth' = 0
    /\ resolved_elements' = <<>>
    /\ status' = "running"
    /\ hist' = [hist EXCEPT !.last = [op |-> "resolve_again"],
                            !.first = [resolved |-> TRUE,
                                       out |-> Trees(heap, resolved_elements)]]
    /\ UNCHANGED <<heap, error, boxes, counter>>

AgainDocs == Docs \cup KeepingDocs

AgainInit == InitWith(AgainDocs) /\ NoConvert

AgainNext ==
    \/ Next
    \/ resolve_again

AgainSpec == AgainInit /\ [][AgainNext]_vars

\* C30: resolve is idempotent on its own output: resolving a Document that
\* resolve returned raises nothing, leaves the variable table empty, and
\* returns the same elements in the same order with the same field values.
C30_ResolveIdempotent ==
    hist.first.resolved =>
        /\ status \in {"running", "done"}
        /\ variables = EmptyDict
        /\ status = "done" =>
               /\ Len(resolved_elements) = Len(hist.first.out)
               /\ Trees(heap, resolved_elements) = hist.first.out

\* a document of four elements, one of them with opacity and rotation
\* resolved to floats and a child, has been resolved a second time
C30_Witness ==
    /\ hist.first.resolved
    /\ status = "done"
    /\ Len(hist.first.out) = 4
    /\ hist.first.out[3].opacity = Float(RInt(1))
    /\ hist.first.out[3].rotate = Float(RInt(45))
    /\ Len(hist.first.out[3].children) = 1
    /\ Trees(heap, resolved_elements)[3].opacity = Float(RInt(1))

====
